---- MODULE Spec2Model ----
(***************************************************************************)
(* A model of the job-control engine of zakosh: the job table              *)
(* (src/shell/job_manager.rs and src/shell/executor/job_manager.rs), the   *)
(* scheduler gate (src/shell/scheduler.rs) and the executor with its       *)
(* SIGCHLD handler (src/shell/executor/executor.rs).                       *)
(*                                                                         *)
(* Ten specifications are given.                                           *)
(*   SpecJT    calls the JobManager methods directly, in any order, on the *)
(*             table JobManager::new() builds.                             *)
(*   Spec      is the shell: the main thread stepping through              *)
(*             execute_command / builtin_fg / builtin_bg, the children the *)
(*             operating system runs, and the SIGCHLD handler that         *)
(*             interrupts the main thread between any two of its steps.    *)
(*   SpecSched runs the three methods of the Scheduler from several        *)
(*             threads over its Mutex and Condvar.                         *)
(*   SpecParse applies the lexer and parser (src/shell/parser) to every    *)
(*             line of bounded length.                                     *)
(*   SpecLex   calls Lexer::next_token again and again on every line of    *)
(*             bounded length.                                             *)
(*   SpecVar   runs set commands and external commands in any order over   *)
(*             the variable store (src/shell/executor/variable.rs).        *)
(*   SpecLoop  adds the read-eval loop of Shell::run_loop, which reads a   *)
(*             line, an interrupt or an end of file at every prompt.       *)
(*   SpecEnv   runs handle_variable_assignment on every bounded list of    *)
(*             NAME=value words over the shell's own environment.          *)
(*   SpecPath  applies find_file_in_path to every bounded PATH and every   *)
(*             small set of directories.                                   *)
(*   SpecWait  runs wait_fg_job of the pipeline JobManager against the     *)
(*             children of one foreground job.                             *)
(*                                                                         *)
(* A Job keeps the fields the code branches on: pid, index, status, is_bg, *)
(* is_current, is_previous.  gid and command are only stored and printed.  *)
(* An Option<T> is a sequence of length at most one.                       *)
(***************************************************************************)
EXTENDS Integers, Sequences, FiniteSets, TLC

\* ------------------------------------------------------------------ bounds

\* Number of distinct pids the direct-call specification SpecJT draws from.
MaxJobs == 4

\* Number of external commands the shell of Spec spawns.
MaxProc == 2

\* Length of the longest line SpecParse hands to the parser.
MaxInput == 5

\* Length of the longest line SpecLex hands to the lexer.
MaxLexInput == 4

\* Length of the longest argument word SpecVar hands to an external command.
MaxWord == 3

\* Number of threads that call the Scheduler in SpecSched.
MaxThreads == 3

\* Number of characters of the longest value of PATH in SpecPath.
MaxPath == 3

\* ------------------------------------------------------------------ state

VARIABLES
    jobs,      \* JobManager.jobs: Vec<Job>, in table (push) order
    last,      \* SpecJT: the last JobManager call, its argument and return value
    is_fg,     \* Scheduler: the Mutex<bool> "shell owns the terminal"
    tty,       \* foreground process group of the terminal (SHELL or a child pid)
    proc,      \* operating system: state of each child process
    wstat,     \* operating system: status waitpid would report for each child
    sigchld,   \* a SIGCHLD is pending for the shell
    hpc,       \* handle_sigchld: "idle" or inside its waitpid loop
    pc,        \* main thread: position in run_loop / execute_command / builtin_*
    cmd,       \* main thread: the command being executed
    cpid,      \* main thread: local `pid` of execute_command / builtin_fg / builtin_bg
    arg_index, \* main thread: local `index` of builtin_fg / builtin_bg / add_job
    result,    \* main thread: io::Result of the last Executor::execute
    input,     \* SpecParse: the line handed to Parser::new, a sequence of characters
    node,      \* SpecParse: the Result<Node, String> of parse_command
    sched_lock,\* SpecSched: the thread that holds the Scheduler's Mutex, or 0
    tpc,       \* SpecSched: each thread's position in a Scheduler method
    lexer,     \* SpecLex: Lexer.input, the characters not read yet
    token,     \* SpecLex: the Token the last call of Lexer::next_token returned
    local_vars,\* SpecVar: Variable.local_vars, the HashMap of the variable store
    child,     \* SpecVar: arguments and environment of the last spawned command
    os_env,    \* SpecEnv: the environment of the shell process (std::env)
    dirs,      \* SpecPath: the directories of the file system and their entries
    lookup,    \* SpecPath: the last call of find_file_in_path and what it returned
    fg_wait    \* SpecWait: pids, count_waited and error of the running wait_fg_job

\* What the specifications of the shell and of the job table leave alone.
auxvars == <<input, node, sched_lock, tpc, lexer, token, local_vars, child, os_env, dirs,
            lookup, fg_wait>>

vars == <<jobs, last, is_fg, tty, proc, wstat, sigchld, hpc, pc, cmd, cpid, arg_index,
          result, input, node, sched_lock, tpc, lexer, token, local_vars, child, os_env,
          dirs, lookup, fg_wait>>

sysvars == <<is_fg, tty, proc, wstat, sigchld, hpc, pc, cmd, cpid, arg_index, result,
             auxvars>>

\* ------------------------------------------------------------------ values

None == <<>>

Some(x) == <<x>>

IsSome(o) == Len(o) = 1

SHELL == 0

\* Pids of the children of Spec, and of the jobs SpecJT adds.
Pids == 1..MaxProc

JTPids == 1..MaxJobs

AllPids == Pids \cup JTPids

\* Job::new: a job is created not current and not previous.
NewJob(pid, index, status) ==
    [pid |-> pid, index |-> index, status |-> status,
     is_bg |-> FALSE, is_current |-> FALSE, is_previous |-> FALSE]

\* ---------------------------------------------------------------- job table

\* Iterator::position and Iterator::find: the first of the positions S, or None.
first_position(S) ==
    IF S = {} THEN None ELSE Some(CHOOSE k \in S : \A m \in S : k <= m)

\* self.jobs.iter() position: |job| job.pid == pid
position_pid(js, pid) == first_position({k \in 1..Len(js) : js[k].pid = pid})

\* self.jobs.iter() position: |job| job.index == idx
position_index(js, idx) == first_position({k \in 1..Len(js) : js[k].index = idx})

\* self.jobs.iter() position: |job| job.is_current
position_current(js) == first_position({k \in 1..Len(js) : js[k].is_current})

\* self.jobs.iter_mut() find: |job| job.is_previous
position_previous(js) == first_position({k \in 1..Len(js) : js[k].is_previous})

\* The while loop of find_available_index, started at `index`.
RECURSIVE first_free_from(_, _)
first_free_from(js, index) ==
    IF \E k \in 1..Len(js) : js[k].index = index
    THEN first_free_from(js, index + 1)
    ELSE index

\* A counter-like index: one more than the number of jobs.
find_available_index_counter(js) == Len(js) + 1

find_available_index(js) == first_free_from(js, 1)

\* update_marks without the demotion of the former current job.
update_marks_keep(js, current_job_index) ==
    [k \in 1..Len(js) |->
        IF js[k].index = current_job_index
        THEN [js[k] EXCEPT !.is_current = TRUE, !.is_previous = FALSE]
        ELSE js[k]]

update_marks(js, current_job_index) ==
    [k \in 1..Len(js) |->
        IF js[k].index = current_job_index
        THEN [js[k] EXCEPT !.is_current = TRUE, !.is_previous = FALSE]
        ELSE IF js[k].is_current
        THEN [js[k] EXCEPT !.is_current = FALSE, !.is_previous = TRUE]
        ELSE [js[k] EXCEPT !.is_previous = FALSE]]

\* The first loop of add_job: the current job becomes the previous one.
demote_current(js) ==
    [k \in 1..Len(js) |->
        IF js[k].is_current
        THEN [js[k] EXCEPT !.is_current = FALSE, !.is_previous = TRUE]
        ELSE [js[k] EXCEPT !.is_previous = FALSE]]

\* add_job up to self.jobs.push(job): the table before the closing update_marks.
add_job_push(js, pid) ==
    LET index == find_available_index(js)
        job   == [NewJob(pid, index, "Continued") EXCEPT !.is_current = TRUE]
    IN  Append(demote_current(js), job)

add_job(js, pid) == update_marks(add_job_push(js, pid), find_available_index(js))

\* Vec::remove.
remove_at(js, pos) ==
    [k \in 1..(Len(js) - 1) |-> IF k < pos THEN js[k] ELSE js[k + 1]]

\* A promotion that falls back on the job with the highest index.
promote_highest(rest) ==
    LET prev == position_previous(rest)
        top  == CHOOSE k \in 1..Len(rest) :
                    \A m \in 1..Len(rest) : rest[m].index <= rest[k].index
    IN  IF IsSome(prev)
        THEN [rest EXCEPT ![prev[1]].is_current = TRUE,
                          ![prev[1]].is_previous = FALSE]
        ELSE [rest EXCEPT ![top].is_current = TRUE]

\* The promotion in remove_job, on the table the job was already removed from.
promote(rest) ==
    LET prev == position_previous(rest)
    IN  IF IsSome(prev)
        THEN [rest EXCEPT ![prev[1]].is_current = TRUE,
                          ![prev[1]].is_previous = FALSE]
        ELSE [rest EXCEPT ![Len(rest)].is_current = TRUE]

\* remove_job that promotes the previous job but leaves it marked previous.
remove_job_keep_prev(js, pid) ==
    LET pos == position_pid(js, pid)
    IN  IF ~IsSome(pos) THEN js
        ELSE LET rest == remove_at(js, pos[1])
                 prev == position_previous(rest)
             IN  IF js[pos[1]].is_current /\ Len(rest) > 0
                 THEN IF IsSome(prev)
                      THEN [rest EXCEPT ![prev[1]].is_current = TRUE]
                      ELSE [rest EXCEPT ![Len(rest)].is_current = TRUE]
                 ELSE rest

\* The table after remove_job(_gid, pid).
remove_job(js, pid) ==
    LET pos == position_pid(js, pid)
    IN  IF ~IsSome(pos) THEN js
        ELSE LET was_current == js[pos[1]].is_current
                 rest        == remove_at(js, pos[1])
             IN  IF was_current /\ Len(rest) > 0 THEN promote(rest) ELSE rest

\* The Option<Job> remove_job returns: the removed job as it was in the table.
remove_job_ret(js, pid) ==
    LET pos == position_pid(js, pid)
    IN  IF IsSome(pos) THEN Some(js[pos[1]]) ELSE None

\* A resolution that ignores the explicit index.
resolve_current(js, index) == position_current(js)

\* The position fg and bg resolve: the job with the explicit index, else the
\* job marked current.
resolve(js, index) ==
    IF IsSome(index)
    THEN position_index(js, index[1])
    ELSE position_current(js)

\* The table after fg(index).
fg(js, index) ==
    LET pos == resolve(js, index)
    IN  IF ~IsSome(pos) THEN js
        ELSE update_marks([js EXCEPT ![pos[1]].status = "Continued"],
                          js[pos[1]].index)

\* The Option<Job> fg returns: a clone of the job after the update.
fg_ret(js, index) ==
    LET pos == resolve(js, index)
    IN  IF IsSome(pos) THEN Some(fg(js, index)[pos[1]]) ELSE None

\* bg that leaves the table as it is.
bg_untouched(js, index) == js

\* job_manager.rs: bg(index: Option<usize>) changes the status only.
bg(js, index) ==
    LET pos == resolve(js, index)
    IN  IF ~IsSome(pos) THEN js
        ELSE [js EXCEPT ![pos[1]].status = "Continued"]

bg_ret(js, index) ==
    LET pos == resolve(js, index)
    IN  IF IsSome(pos) THEN Some(bg(js, index)[pos[1]]) ELSE None

\* executor/job_manager.rs: bg(index: usize) also makes the job current.
bg_exec(js, index) ==
    LET pos == position_index(js, index)
    IN  IF ~IsSome(pos) THEN js
        ELSE update_marks([js EXCEPT ![pos[1]].status = "Continued"],
                          js[pos[1]].index)

\* A mark_suspended that also makes the stopped job the current one.
mark_suspended_current(js, pid) ==
    LET pos == position_pid(js, pid)
    IN  IF ~IsSome(pos) THEN js
        ELSE update_marks([js EXCEPT ![pos[1]].status = "Suspended"], js[pos[1]].index)

\* executor/job_manager.rs: mark_suspended(pid).
mark_suspended(js, pid) ==
    LET pos == position_pid(js, pid)
    IN  IF ~IsSome(pos) THEN js
        ELSE [js EXCEPT ![pos[1]].status = "Suspended"]

\* job_manager.rs: mark_job_stopped(_gid, pid, report).
mark_job_stopped(js, pid) ==
    LET pos == position_pid(js, pid)
    IN  IF ~IsSome(pos) THEN js
        ELSE [js EXCEPT ![pos[1]].status = "Stopped", ![pos[1]].is_bg = TRUE]

\* job_manager.rs: mark_job_as_done(gid, pid, status) removes the job.
mark_job_as_done(js, pid) == remove_job(js, pid)

\* ---------------------------------------------------------------- scheduler

\* A pause that flips the flag instead of clearing it.
pause_toggle(flag) == ~flag

\* Scheduler::pause: *is_fg = false.
pause(flag) == FALSE

\* Scheduler::resume: *is_fg = true.
resume(flag) == TRUE

\* Scheduler::wait_until_foreground: the condition of `while !*is_fg`.
must_wait(flag) == ~flag

\* ------------------------------------------------------------- helper sets

JobPids(js) == {js[k].pid : k \in 1..Len(js)}

JobIndices(js) == {js[k].index : k \in 1..Len(js)}

Currents(js) == {k \in 1..Len(js) : js[k].is_current}

Previouses(js) == {k \in 1..Len(js) : js[k].is_previous}

\* ------------------------------------------------------------------- Init

\* No line was parsed yet.
NotParsed == [ok |-> FALSE, kind |-> "NotParsed", commands |-> <<>>, error |-> ""]

\* The threads that call the Scheduler in SpecSched.
Threads == 1..MaxThreads

\* No token was asked of the lexer yet.
NoToken == [type |-> "None", text |-> <<>>, op |-> "None"]

\* What the shell itself was started with, which is not in the store.
InheritedEnv == [n \in {<<"P">>} |-> <<"/">>]

\* No directory exists.
NoDirs == <<>>

\* find_file_in_path was not called yet.
NoLookup == [called |-> FALSE, filename |-> <<>>, exec |-> FALSE, ret |-> <<>>]

\* wait_fg_job was not called.
NoWait == [pids |-> <<>>, count_waited |-> 0, error |-> FALSE]

\* No command was spawned yet.
NoChild == [spawned |-> FALSE, program |-> <<>>, original_args |-> <<>>, args |-> <<>>,
            env |-> <<>>]

NoCall == [op |-> "new", arg |-> None, ret |-> None, cur |-> None, prev |-> None]

InitShell ==
    /\ jobs = <<>>
    /\ last = NoCall
    /\ is_fg = TRUE
    /\ tty = SHELL
    /\ proc = [p \in AllPids |-> "none"]
    /\ wstat = [p \in AllPids |-> "none"]
    /\ sigchld = FALSE
    /\ hpc = "idle"
    /\ pc = "prompt"
    /\ cmd = "none"
    /\ cpid = 0
    /\ arg_index = None
    /\ result = "none"
    /\ node = NotParsed
    /\ token = NoToken
    /\ local_vars = <<>>
    /\ child = NoChild
    /\ sched_lock = 0
    /\ tpc = [t \in Threads |-> "idle"]

\* The environment and the file system outside SpecEnv and SpecPath.
InitEnv == os_env = InheritedEnv /\ dirs = NoDirs /\ lookup = NoLookup /\ fg_wait = NoWait

Init == InitShell /\ input = <<>> /\ lexer = <<>> /\ InitEnv

\* ------------------------------------------------- SpecJT: direct calls

\* The pid of the job at an Option<position>.
pid_at(js, pos) == IF IsSome(pos) THEN Some(js[pos[1]].pid) ELSE None

\* The record of a call: the method, its argument, what it returned, and the
\* pids of the jobs that were current and previous when it was called.
Call(op, arg, ret) ==
    [op |-> op, arg |-> arg, ret |-> ret,
     cur  |-> pid_at(jobs, position_current(jobs)),
     prev |-> pid_at(jobs, position_previous(jobs))]

jtvars == <<is_fg, tty, wstat, sigchld, hpc, pc, cmd, cpid, arg_index, result,
            auxvars>>

\* The pid of a newly spawned child: the lowest pid not handed out yet.
fresh_pid(S) == CHOOSE p \in S : proc[p] = "none" /\ \A q \in S : q < p => proc[q] # "none"

\* add_job is called with the pid of a child that was just spawned.
JT_add_job ==
    /\ \E p \in JTPids : proc[p] = "none"
    /\ LET pid == fresh_pid(JTPids)
       IN  /\ proc' = [proc EXCEPT ![pid] = "running"]
           /\ jobs' = add_job(jobs, pid)
           /\ last' = Call("add_job", Some(pid), None)
    /\ UNCHANGED jtvars

JT_remove_job ==
    \E pid \in JTPids :
        /\ jobs' = remove_job(jobs, pid)
        /\ last' = Call("remove_job", Some(pid), remove_job_ret(jobs, pid))
        /\ UNCHANGED sysvars

JT_fg ==
    \E index \in {None} \cup {Some(n) : n \in 0..(MaxJobs + 1)} :
        /\ jobs' = fg(jobs, index)
        /\ last' = Call("fg", index, fg_ret(jobs, index))
        /\ UNCHANGED sysvars

JT_bg ==
    \E index \in {None} \cup {Some(n) : n \in 0..(MaxJobs + 1)} :
        /\ jobs' = bg(jobs, index)
        /\ last' = Call("bg", index, bg_ret(jobs, index))
        /\ UNCHANGED sysvars

JT_bg_exec ==
    \E n \in 0..(MaxJobs + 1) :
        /\ jobs' = bg_exec(jobs, n)
        /\ last' = Call("bg_exec", Some(n), None)
        /\ UNCHANGED sysvars

JT_mark_suspended ==
    \E pid \in JTPids :
        /\ jobs' = mark_suspended(jobs, pid)
        /\ last' = Call("mark_suspended", Some(pid), None)
        /\ UNCHANGED sysvars

NextJT ==
    \/ JT_add_job
    \/ JT_remove_job
    \/ JT_fg
    \/ JT_bg
    \/ JT_bg_exec
    \/ JT_mark_suspended

SpecJT == Init /\ [][NextJT]_vars

\* --------------------------------------------------------- Spec: the shell

\* handle_sigchld runs on the main thread: while it runs, the main thread
\* does not.
MainRuns == hpc = "idle"

\* libc::tcsetpgrp(fd, pgid) fails, and changes nothing, when no process of
\* the group is left; a zombie still holds its group until it is reaped.
tcsetpgrp(pgid) ==
    IF pgid # SHELL /\ proc[pgid] \in {"none", "reaped"} THEN tty ELSE pgid

\* libc::kill(-pid, SIGCONT): a stopped child runs again and the parent is
\* notified (WCONTINUED); any other child is left as it is.
sigcont(pid) ==
    IF proc[pid] = "stopped"
    THEN /\ proc' = [proc EXCEPT ![pid] = "running"]
         /\ wstat' = [wstat EXCEPT ![pid] = "continued"]
         /\ sigchld' = TRUE
    ELSE UNCHANGED <<proc, wstat, sigchld>>

\* The characters an argument of fg / bg is typed with.
Digits == {"0", "1", "2"}

ArgChars == {"%", "+", "x"} \cup Digits

\* char::to_digit(10).
digit_value(c) == CASE c = "0" -> 0 [] c = "1" -> 1 [] c = "2" -> 2

\* The value of a string of decimal digits, most significant digit first.
RECURSIVE decimal(_)
decimal(w) ==
    IF w = <<>> THEN 0
    ELSE 10 * decimal(SubSeq(w, 1, Len(w) - 1)) + digit_value(w[Len(w)])

\* str::parse::<usize>: an optional "+", then one or more decimal digits.
parse_usize(w) ==
    LET digits == IF w # <<>> /\ w[1] = "+" THEN Tail(w) ELSE w
    IN  IF digits # <<>> /\ \A k \in 1..Len(digits) : digits[k] \in Digits
        THEN [ok |-> TRUE, value |-> decimal(digits)]
        ELSE [ok |-> FALSE, value |-> 0]

\* command.arguments.first() of a fg / bg command: no argument, the empty
\* word, one character, "%" and one character, or one of four longer words.
JobArgs ==
    {None}
        \cup {Some(w) : w \in {<<>>} \cup {<<c>> : c \in ArgChars}
                                  \cup {<<"%", c>> : c \in ArgChars}}
        \cup {Some(<<"%", "+", "1">>), Some(<<"%", "1", "2">>),
              Some(<<"%", "1", "x">>), Some(<<"x", "1">>)}

\* A parse that does not insist on the % prefix.
parse_job_arg_lenient(a) ==
    IF ~IsSome(a) THEN [ok |-> TRUE, index |-> None]
    ELSE LET n == parse_usize(IF a[1] # <<>> /\ a[1][1] = "%" THEN Tail(a[1]) ELSE a[1])
         IN  [ok |-> n.ok, index |-> IF n.ok THEN Some(n.value) ELSE None]

\* The parse at the head of builtin_fg and builtin_bg: Ok(index) or
\* Err(InvalidInput).  strip_prefix('%') must succeed and the rest must parse
\* as usize.
parse_job_arg(a) ==
    IF ~IsSome(a) THEN [ok |-> TRUE, index |-> None]
    ELSE IF a[1] # <<>> /\ a[1][1] = "%"
    THEN LET n == parse_usize(Tail(a[1]))
         IN  [ok |-> n.ok, index |-> IF n.ok THEN Some(n.value) ELSE None]
    ELSE [ok |-> FALSE, index |-> None]

\* execute_command, external program: Command::spawn forks the child.
Spawn ==
    /\ MainRuns /\ pc = "prompt"
    /\ \E p \in Pids : proc[p] = "none"
    /\ LET pid == fresh_pid(Pids)
       IN  /\ proc' = [proc EXCEPT ![pid] = "running"]
           /\ cpid' = pid
    /\ cmd' = "external"
    /\ pc' = "ec_spawned"
    /\ UNCHANGED <<jobs, last, is_fg, tty, wstat, sigchld, hpc, arg_index, result>>
    /\ UNCHANGED auxvars

\* execute_command: spawn()? returns the error of a failed fork / exec.
SpawnFail ==
    /\ MainRuns /\ pc = "prompt"
    /\ cmd' = "external"
    /\ result' = "Io"
    /\ pc' = "wait"
    /\ UNCHANGED <<jobs, last, is_fg, tty, proc, wstat, sigchld, hpc, cpid, arg_index>>
    /\ UNCHANGED auxvars

\* execute_command: the child's group is made the terminal's foreground group.
EcTcsetpgrp ==
    /\ MainRuns /\ pc = "ec_spawned"
    /\ tty' = tcsetpgrp(cpid)
    /\ pc' = "ec_tty"
    /\ UNCHANGED <<jobs, last, is_fg, proc, wstat, sigchld, hpc, cmd, cpid, arg_index, result>>
    /\ UNCHANGED auxvars

\* execute_command: self.job_manager.add_job(pid, ...), called on the
\* Executor's own handle of the table, without JOB_MANAGER's lock.  The call
\* runs up to self.jobs.push(job); SIGCHLD can be delivered before it goes on.
EcAddJob ==
    /\ MainRuns /\ pc = "ec_tty"
    /\ jobs' = add_job_push(jobs, cpid)
    /\ arg_index' = Some(find_available_index(jobs))
    /\ pc' = "ec_pushed"
    /\ UNCHANGED <<last, is_fg, tty, proc, wstat, sigchld, hpc, cmd, cpid, result>>
    /\ UNCHANGED auxvars

\* add_job: the closing self.update_marks(index), and the return.
EcAddJobMarks ==
    /\ MainRuns /\ pc = "ec_pushed"
    /\ jobs' = update_marks(jobs, arg_index[1])
    /\ arg_index' = None
    /\ pc' = "ec_added"
    /\ UNCHANGED <<last, is_fg, tty, proc, wstat, sigchld, hpc, cmd, cpid, result>>
    /\ UNCHANGED auxvars

\* execute_command: self.scheduler.pause(), then Ok(()).
EcPause ==
    /\ MainRuns /\ pc = "ec_added"
    /\ is_fg' = pause(is_fg)
    /\ result' = "Ok"
    /\ pc' = "wait"
    /\ UNCHANGED <<jobs, last, tty, proc, wstat, sigchld, hpc, cmd, cpid, arg_index>>
    /\ UNCHANGED auxvars

\* builtin_fg up to the `?` after job_manager.fg(index).
BuiltinFgArg(a) ==
    /\ MainRuns /\ pc = "prompt"
    /\ cmd' = "fg"
    /\ LET parsed == parse_job_arg(a)
           job    == fg_ret(jobs, parsed.index)
       IN  IF ~parsed.ok
            THEN /\ result' = "InvalidInput"
                 /\ pc' = "wait"
                 /\ UNCHANGED <<jobs, cpid, arg_index>>
            ELSE IF ~IsSome(job)
            THEN /\ arg_index' = parsed.index
                 /\ result' = "NotFound"
                 /\ pc' = "wait"
                 /\ UNCHANGED <<jobs, cpid>>
            ELSE /\ arg_index' = parsed.index
                 /\ jobs' = fg(jobs, parsed.index)
                 /\ cpid' = job[1].pid
                 /\ pc' = "fg_resolved"
                 /\ UNCHANGED result
    /\ UNCHANGED <<last, is_fg, tty, proc, wstat, sigchld, hpc>>
    /\ UNCHANGED auxvars

\* builtin_fg with any first argument.
BuiltinFg == \E a \in JobArgs : BuiltinFgArg(a)

\* builtin_fg: self.scheduler.pause().
FgPause ==
    /\ MainRuns /\ pc = "fg_resolved"
    /\ is_fg' = pause(is_fg)
    /\ pc' = "fg_paused"
    /\ UNCHANGED <<jobs, last, tty, proc, wstat, sigchld, hpc, cmd, cpid, arg_index, result>>
    /\ UNCHANGED auxvars

\* builtin_fg: libc::tcsetpgrp(0, pid).
FgTcsetpgrp ==
    /\ MainRuns /\ pc = "fg_paused"
    /\ tty' = tcsetpgrp(cpid)
    /\ pc' = "fg_tty"
    /\ UNCHANGED <<jobs, last, is_fg, proc, wstat, sigchld, hpc, cmd, cpid, arg_index, result>>
    /\ UNCHANGED auxvars

\* builtin_fg: libc::kill(-pid, SIGCONT), then Ok(()).
FgKill ==
    /\ MainRuns /\ pc = "fg_tty"
    /\ sigcont(cpid)
    /\ result' = "Ok"
    /\ pc' = "wait"
    /\ UNCHANGED <<jobs, last, is_fg, tty, hpc, cmd, cpid, arg_index>>
    /\ UNCHANGED auxvars

\* builtin_bg up to the `?` after job_manager.bg(index).
BuiltinBgArg(a) ==
    /\ MainRuns /\ pc = "prompt"
    /\ cmd' = "bg"
    /\ LET parsed == parse_job_arg(a)
           job    == bg_ret(jobs, parsed.index)
       IN  IF ~parsed.ok
            THEN /\ result' = "InvalidInput"
                 /\ pc' = "wait"
                 /\ UNCHANGED <<jobs, cpid, arg_index>>
            ELSE IF ~IsSome(job)
            THEN /\ arg_index' = parsed.index
                 /\ result' = "NotFound"
                 /\ pc' = "wait"
                 /\ UNCHANGED <<jobs, cpid>>
            ELSE /\ arg_index' = parsed.index
                 /\ jobs' = bg(jobs, parsed.index)
                 /\ cpid' = job[1].pid
                 /\ pc' = "bg_resolved"
                 /\ UNCHANGED result
    /\ UNCHANGED <<last, is_fg, tty, proc, wstat, sigchld, hpc>>
    /\ UNCHANGED auxvars

\* builtin_bg with any first argument.
BuiltinBg == \E a \in JobArgs : BuiltinBgArg(a)

\* builtin_bg: libc::kill(-pid, SIGCONT), then Ok(()).
BgKill ==
    /\ MainRuns /\ pc = "bg_resolved"
    /\ sigcont(cpid)
    /\ result' = "Ok"
    /\ pc' = "wait"
    /\ UNCHANGED <<jobs, last, is_fg, tty, hpc, cmd, cpid, arg_index>>
    /\ UNCHANGED auxvars

\* Scheduler::wait_until_foreground: it returns only once the flag is true.
\* The main loop suspends inside it after Executor::execute and before it
\* reads the next line.
WaitUntilForeground ==
    /\ MainRuns /\ pc = "wait"
    /\ ~must_wait(is_fg)
    /\ pc' = "prompt"
    /\ cmd' = "none"
    /\ cpid' = 0
    /\ arg_index' = None
    /\ result' = "none"
    /\ UNCHANGED <<jobs, last, is_fg, tty, proc, wstat, sigchld, hpc>>
    /\ UNCHANGED auxvars

\* ---- the operating system: what a child does, or has done to it

\* A running child calls exit.
ChildExit ==
    \E p \in Pids :
        /\ proc[p] = "running"
        /\ proc' = [proc EXCEPT ![p] = "zombie"]
        /\ wstat' = [wstat EXCEPT ![p] = "exited"]
        /\ sigchld' = TRUE
        /\ UNCHANGED <<jobs, last, is_fg, tty, hpc, pc, cmd, cpid, arg_index, result>>
        /\ UNCHANGED auxvars

\* A child is terminated by a signal (Ctrl-C on the terminal, kill from elsewhere).
ChildKilled ==
    \E p \in Pids :
        /\ proc[p] \in {"running", "stopped"}
        /\ proc' = [proc EXCEPT ![p] = "zombie"]
        /\ wstat' = [wstat EXCEPT ![p] = "signaled"]
        /\ sigchld' = TRUE
        /\ UNCHANGED <<jobs, last, is_fg, tty, hpc, pc, cmd, cpid, arg_index, result>>
        /\ UNCHANGED auxvars

\* A running child is stopped (Ctrl-Z, SIGSTOP, SIGTTIN, SIGTTOU).
ChildStop ==
    \E p \in Pids :
        /\ proc[p] = "running"
        /\ proc' = [proc EXCEPT ![p] = "stopped"]
        /\ wstat' = [wstat EXCEPT ![p] = "stopped"]
        /\ sigchld' = TRUE
        /\ UNCHANGED <<jobs, last, is_fg, tty, hpc, pc, cmd, cpid, arg_index, result>>
        /\ UNCHANGED auxvars

\* A stopped child is sent SIGCONT by some other process.
ChildCont ==
    \E p \in Pids :
        /\ proc[p] = "stopped"
        /\ sigcont(p)
        /\ UNCHANGED <<jobs, last, is_fg, tty, hpc, pc, cmd, cpid, arg_index, result>>
        /\ UNCHANGED auxvars

\* ---- handle_sigchld

\* The pending SIGCHLD is delivered: the handler interrupts the main thread.
HandlerStart ==
    /\ hpc = "idle"
    /\ sigchld
    /\ sigchld' = FALSE
    /\ hpc' = "loop"
    /\ UNCHANGED <<jobs, last, is_fg, tty, proc, wstat, pc, cmd, cpid, arg_index, result>>
    /\ UNCHANGED auxvars

\* A handler that takes no status for a continue.
WIFCONTINUED_never(status) == FALSE

\* libc::WIFCONTINUED(status).
WIFCONTINUED(status) == status = "continued"

\* One turn of the handler's loop in which waitpid(-1, WNOHANG | WUNTRACED |
\* WCONTINUED) returns the pid p of a child whose state changed.
HandlerReap ==
    /\ hpc = "loop"
    /\ \E p \in Pids :
        /\ wstat[p] # "none"
        /\ wstat' = [wstat EXCEPT ![p] = "none"]
        /\ proc' = IF wstat[p] \in {"exited", "signaled"}
                   THEN [proc EXCEPT ![p] = "reaped"]
                   ELSE proc
        /\ IF WIFCONTINUED(wstat[p])
           THEN \* WIFCONTINUED: print and break
                /\ hpc' = "idle"
                /\ UNCHANGED <<jobs, tty, is_fg>>
           ELSE /\ jobs' = IF wstat[p] = "stopped"
                           THEN mark_suspended(jobs, p)
                           ELSE remove_job(jobs, p)
                /\ tty' = tcsetpgrp(SHELL)
                /\ is_fg' = resume(is_fg)
                /\ hpc' = "loop"
    /\ UNCHANGED <<last, sigchld, pc, cmd, cpid, arg_index, result>>
    /\ UNCHANGED auxvars

\* waitpid returns 0 (no child changed state) or -1 (no child): break.
HandlerEnd ==
    /\ hpc = "loop"
    /\ \A p \in Pids : wstat[p] = "none"
    /\ hpc' = "idle"
    /\ UNCHANGED <<jobs, last, is_fg, tty, proc, wstat, sigchld, pc, cmd, cpid, arg_index, result>>
    /\ UNCHANGED auxvars

Next ==
    \/ Spawn
    \/ SpawnFail
    \/ EcTcsetpgrp
    \/ EcAddJob
    \/ EcAddJobMarks
    \/ EcPause
    \/ BuiltinFg
    \/ FgPause
    \/ FgTcsetpgrp
    \/ FgKill
    \/ BuiltinBg
    \/ BgKill
    \/ WaitUntilForeground
    \/ ChildExit
    \/ ChildKilled
    \/ ChildStop
    \/ ChildCont
    \/ HandlerStart
    \/ HandlerReap
    \/ HandlerEnd

Spec == Init /\ [][Next]_vars

\* ------------------------------------------- SpecSched: the Scheduler alone

\* What the Scheduler's methods leave alone.
nonschedvars == <<jobs, last, tty, proc, wstat, sigchld, hpc, pc, cmd, cpid, arg_index,
                  result, input, node, lexer, token, local_vars, child, os_env, dirs,
                  lookup, fg_wait>>

\* lock.lock().unwrap() at the head of wait_until_foreground: the thread
\* blocks until the Mutex is free.
WufLock ==
    \E t \in Threads :
        /\ tpc[t] = "idle" /\ sched_lock = 0
        /\ sched_lock' = t
        /\ tpc' = [tpc EXCEPT ![t] = "w_check"]
        /\ UNCHANGED <<is_fg, nonschedvars>>

\* while !*is_fg { is_fg = cvar.wait(is_fg) }: with the flag true the method
\* returns and drops the guard; otherwise cvar.wait releases the Mutex and
\* blocks the thread.
WufCheck ==
    \E t \in Threads :
        /\ tpc[t] = "w_check"
        /\ tpc' = [tpc EXCEPT ![t] = IF must_wait(is_fg) THEN "w_wait" ELSE "idle"]
        /\ sched_lock' = 0
        /\ UNCHANGED <<is_fg, nonschedvars>>

\* Condvar::wait is allowed to wake without a notification.
WufSpurious ==
    \E t \in Threads :
        /\ tpc[t] = "w_wait"
        /\ tpc' = [tpc EXCEPT ![t] = "w_woken"]
        /\ UNCHANGED <<is_fg, sched_lock, nonschedvars>>

\* cvar.wait returns once it holds the Mutex again; the loop tests the flag.
WufReacquire ==
    \E t \in Threads :
        /\ tpc[t] = "w_woken" /\ sched_lock = 0
        /\ sched_lock' = t
        /\ tpc' = [tpc EXCEPT ![t] = "w_check"]
        /\ UNCHANGED <<is_fg, nonschedvars>>

\* lock.lock().unwrap() at the head of pause.
PauseLock ==
    \E t \in Threads :
        /\ tpc[t] = "idle" /\ sched_lock = 0
        /\ sched_lock' = t
        /\ tpc' = [tpc EXCEPT ![t] = "p_set"]
        /\ UNCHANGED <<is_fg, nonschedvars>>

\* cvar.notify_all() under the guard of thread t, which then returns.
notify_all(t) ==
    [u \in Threads |-> IF u = t THEN "idle"
                       ELSE IF tpc[u] = "w_wait" THEN "w_woken" ELSE tpc[u]]

\* pause: *is_fg = false; cvar.notify_all(); the guard is dropped.
PauseSet ==
    \E t \in Threads :
        /\ tpc[t] = "p_set"
        /\ is_fg' = pause(is_fg)
        /\ tpc' = notify_all(t)
        /\ sched_lock' = 0
        /\ UNCHANGED nonschedvars

\* lock.lock().unwrap() at the head of resume.
ResumeLock ==
    \E t \in Threads :
        /\ tpc[t] = "idle" /\ sched_lock = 0
        /\ sched_lock' = t
        /\ tpc' = [tpc EXCEPT ![t] = "r_set"]
        /\ UNCHANGED <<is_fg, nonschedvars>>

\* resume: *is_fg = true; cvar.notify_all(); the guard is dropped.
ResumeSet ==
    \E t \in Threads :
        /\ tpc[t] = "r_set"
        /\ is_fg' = resume(is_fg)
        /\ tpc' = notify_all(t)
        /\ sched_lock' = 0
        /\ UNCHANGED nonschedvars

NextSched ==
    \/ WufLock
    \/ WufCheck
    \/ WufSpurious
    \/ WufReacquire
    \/ PauseLock
    \/ PauseSet
    \/ ResumeLock
    \/ ResumeSet

SpecSched == Init /\ [][NextSched]_vars

\* ------------------------------------------- SpecParse: lexer and parser

\* The characters a line is made of: two letters, the blank, the operator
\* characters, both quotes and the backslash.
Chars == {"a", "b", " ", "|", ";", "&", "<", ">", "\"", "'", "\\"}

\* The lines of n characters.
Inputs(n) == [1..n -> Chars]

\* lexer.rs: enum Token; text is the String of a Word, op the RedirectOp of a
\* Redirect.
Word(w) == [type |-> "Word", text |-> w, op |-> "None"]

Pipe == [type |-> "Pipe", text |-> <<>>, op |-> "None"]

Redirect(op) == [type |-> "Redirect", text |-> <<>>, op |-> op]

Background == [type |-> "Background", text |-> <<>>, op |-> "None"]

Semi == [type |-> "Semi", text |-> <<>>, op |-> "None"]

EOF == [type |-> "EOF", text |-> <<>>, op |-> "None"]

\* char::is_whitespace, on the characters of Chars.
is_whitespace(c) == c = " "

\* lexer.rs: the characters that end a word, ";<>|&".
WordBreaks == {";", "<", ">", "|", "&"}

\* lexer.rs: skip_whitespace; the characters left after it.
RECURSIVE skip_whitespace(_)
skip_whitespace(s) ==
    IF s # <<>> /\ is_whitespace(s[1]) THEN skip_whitespace(Tail(s)) ELSE s

\* lexer.rs: the loop of read_word, word being the String built so far.
RECURSIVE read_word_loop(_, _)
read_word_loop(word, s) ==
    IF s = <<>> \/ is_whitespace(s[1]) \/ s[1] \in WordBreaks
    THEN [tok |-> Word(word), rest |-> s]
    ELSE read_word_loop(Append(word, s[1]), Tail(s))

\* read_word that looks at the first character and reads nothing.
read_word_peek(s) == [tok |-> Word(<<s[1]>>), rest |-> s]

read_word(s) == read_word_loop(<<>>, s)

\* lexer.rs: the loop of read_quoted_string.
RECURSIVE read_quoted_loop(_, _, _, _)
read_quoted_loop(quote, string, escaped, s) ==
    IF s = <<>> THEN [tok |-> Word(string), rest |-> <<>>]
    ELSE IF escaped THEN read_quoted_loop(quote, Append(string, s[1]), FALSE, Tail(s))
    ELSE IF s[1] = "\\" THEN read_quoted_loop(quote, string, TRUE, Tail(s))
    ELSE IF s[1] = quote THEN [tok |-> Word(string), rest |-> Tail(s)]
    ELSE read_quoted_loop(quote, Append(string, s[1]), FALSE, Tail(s))

\* read_quoted_string that ends at a blank or an operator as read_word does.
read_quoted_as_word(s) == read_word_loop(<<>>, Tail(s))

\* lexer.rs: read_quoted_string; s starts with the opening quote.
read_quoted_string(s) == read_quoted_loop(s[1], <<>>, FALSE, Tail(s))

\* lexer.rs: Lexer::next_token; the token and the characters left.
next_token(chars) ==
    LET s == skip_whitespace(chars)
    IN  IF s = <<>> THEN [tok |-> EOF, rest |-> <<>>]
        ELSE CASE s[1] = "|" -> [tok |-> Pipe, rest |-> Tail(s)]
               [] s[1] = ";" -> [tok |-> Semi, rest |-> Tail(s)]
               [] s[1] = "&" -> [tok |-> Background, rest |-> Tail(s)]
               [] s[1] = "<" -> [tok |-> Redirect("Input"), rest |-> Tail(s)]
               [] s[1] = ">" ->
                    IF Len(s) >= 2 /\ s[2] = ">"
                    THEN [tok |-> Redirect("Append"), rest |-> Tail(Tail(s))]
                    ELSE [tok |-> Redirect("Output"), rest |-> Tail(s)]
               [] s[1] \in {"\"", "'"} -> read_quoted_string(s)
               [] OTHER -> read_word(s)

\* parser.rs: Parser::new reads the first token.
Parser_new(line) ==
    LET t == next_token(line)
    IN  [current_token |-> t.tok, lexer |-> t.rest]

\* parser.rs: Parser::next_token.
parser_next_token(p) ==
    LET t == next_token(p.lexer)
    IN  [current_token |-> t.tok, lexer |-> t.rest]

\* parse_redirection that takes whatever token follows the operator as the
\* filename.
parse_redirection_any(p, operator) ==
    LET q == parser_next_token(p)
    IN  [ok |-> TRUE,
         redirection |-> [operator |-> operator, filename |-> q.current_token.text],
         error |-> "",
         p |-> IF q.current_token.type = "Word" THEN parser_next_token(q) ELSE q]

\* parser.rs: parse_redirection; p.current_token is the operator.
parse_redirection(p, operator) ==
    LET q == parser_next_token(p)
    IN  IF q.current_token.type = "Word"
        THEN [ok |-> TRUE,
              redirection |-> [operator |-> operator, filename |-> q.current_token.text],
              error |-> "",
              p |-> parser_next_token(q)]
        ELSE [ok |-> FALSE,
              redirection |-> [operator |-> operator, filename |-> <<>>],
              error |-> "Expected filename after redirection operator",
              p |-> q]

\* ast.rs: Command::default(), the value parse_simple_command starts from.
DefaultCommand ==
    [program |-> <<>>, arguments |-> <<>>, redirections |-> <<>>, background |-> FALSE]

\* redirections.push with the redirection put in front.
redirections_push_front(redirections, redirection) == <<redirection>> \o redirections

\* parser.rs: command.redirections.push(redirection).
redirections_push(redirections, redirection) == Append(redirections, redirection)

\* arguments.push with the word put in front.
arguments_push_front(arguments, word) == <<word>> \o arguments

\* parser.rs: command.arguments.push(word.clone()).
arguments_push(arguments, word) == Append(arguments, word)

\* parser.rs: the loop of parse_simple_command over arguments and
\* redirections.
RECURSIVE simple_command_loop(_, _)
simple_command_loop(command, p) ==
    LET t == p.current_token
    IN  CASE t.type \in {"EOF", "Pipe", "Semi"} ->
                [ok |-> TRUE, command |-> command, error |-> "", p |-> p]
          [] t.type = "Background" ->
                [ok |-> TRUE, command |-> [command EXCEPT !.background = TRUE],
                 error |-> "", p |-> parser_next_token(p)]
          [] t.type = "Redirect" ->
                LET r == parse_redirection(p, t.op)
                IN  IF r.ok
                    THEN simple_command_loop(
                            [command EXCEPT !.redirections = redirections_push(@, r.redirection)],
                            r.p)
                    ELSE [ok |-> FALSE, command |-> command, error |-> r.error, p |-> r.p]
          [] t.type = "Word" ->
                simple_command_loop(
                    [command EXCEPT !.arguments = arguments_push(@, t.text)],
                    parser_next_token(p))

\* parser.rs: parse_simple_command.
parse_simple_command(p) ==
    IF p.current_token.type = "Word"
    THEN simple_command_loop([DefaultCommand EXCEPT !.program = p.current_token.text],
                             parser_next_token(p))
    ELSE [ok |-> FALSE, command |-> DefaultCommand, error |-> "Expected command name",
          p |-> p]

\* commands.push with the command put in front.
commands_push_front(commands, command) == <<command>> \o commands

\* parser.rs: commands.push(cmd).
commands_push(commands, command) == Append(commands, command)

\* parser.rs: the Ok value of parse_command, Node::Command for one command
\* and Node::Pipeline otherwise.
make_node(commands) ==
    [ok |-> TRUE,
     kind |-> IF Len(commands) = 1 THEN "Command" ELSE "Pipeline",
     commands |-> commands,
     error |-> ""]

\* parser.rs: the while loop of parse_command.
RECURSIVE parse_command_loop(_, _)
parse_command_loop(commands, p) ==
    IF p.current_token = EOF THEN make_node(commands)
    ELSE LET r == parse_simple_command(p)
         IN  IF ~r.ok
             THEN [ok |-> FALSE, kind |-> "Err", commands |-> <<>>, error |-> r.error]
             ELSE IF r.p.current_token.type = "Pipe"
             THEN parse_command_loop(commands_push(commands, r.command),
                                     parser_next_token(r.p))
             ELSE make_node(commands_push(commands, r.command))

\* parser.rs: Parser::new(line).parse_command().
parse_command(line) == parse_command_loop(<<>>, Parser_new(line))

\* Every line of at most MaxInput characters may be the one parsed.
InitParse ==
    InitShell /\ InitEnv /\ lexer = <<>> /\ \E n \in 0..MaxInput : input \in Inputs(n)

\* shell.rs: Parser::new(line) and parser.parse_command().
ParseCommand ==
    /\ node = NotParsed
    /\ node' = parse_command(input)
    /\ UNCHANGED <<jobs, last, is_fg, tty, proc, wstat, sigchld, hpc, pc, cmd, cpid,
                   arg_index, result, input, sched_lock, tpc, lexer, token, local_vars,
                   child, os_env, dirs, lookup, fg_wait>>

NextParse == ParseCommand

SpecParse == InitParse /\ [][NextParse]_vars

\* ------------------------------------------------- SpecLex: the lexer alone

\* Lexer::new(input) for every line of at most MaxLexInput characters.
InitLex ==
    /\ InitShell
    /\ InitEnv
    /\ \E n \in 0..MaxLexInput : input \in Inputs(n)
    /\ lexer = input

\* One call of Lexer::next_token.
NextToken ==
    /\ token' = next_token(lexer).tok
    /\ lexer' = next_token(lexer).rest
    /\ UNCHANGED <<jobs, last, is_fg, tty, proc, wstat, sigchld, hpc, pc, cmd, cpid,
                   arg_index, result, input, node, sched_lock, tpc, local_vars, child,
                   os_env, dirs, lookup, fg_wait>>

NextLex == NextToken

\* The caller asks for tokens again and again.
SpecLex == InitLex /\ [][NextLex]_vars /\ WF_vars(NextToken)

\* ------------------------------------- SpecVar: variables and environment

\* The characters the argument words are drawn from: the dollar sign, a
\* letter (which is alphanumeric) and the dash (which is not).
VarChars == {"$", "X", "-"}

\* The characters that occur in a word and are alphanumeric.
Alphanumeric == {"X", "Y", "F", "O", "U", "N", "S", "E", "T", "a", "b", "r", "x"}

\* executor.rs: next_char.is_alphanumeric() || next_char == '_'.
is_identifier_char(c) == c \in Alphanumeric \cup {"_"}

\* The argument words: every word of at most MaxWord characters of VarChars,
\* and three words with a second letter.
ArgWords ==
    UNION {[1..n -> VarChars] : n \in 0..MaxWord}
        \cup {<<"Y">>, <<"$", "Y">>, <<"$", "X", "Y">>}

\* The names and values the set commands of SpecVar use.
SetNames == {<<"X">>, <<"Y">>}

SetValues == {<<"-">>, <<"$", "Y">>}

\* The argument lists of the set commands: none, one, two or three words.
SetArgLists ==
    {<<>>} \cup {<<n>> : n \in SetNames}
           \cup {<<n, v>> : n \in SetNames, v \in SetValues}
           \cup {<<n, v, n>> : n \in SetNames, v \in SetValues}

\* The argument lists of the external commands: none, one word, or two words
\* of which the second is a variable reference.
ExternalArgLists ==
    {<<>>} \cup {<<w>> : w \in ArgWords}
           \cup {<<w, <<"$", "X">> >> : w \in {<<"$", "Y">>, <<"Y">>}}

\* The program names of the external commands.
Programs == {<<"e">>, <<"$", "X">>}

\* variable.rs: Variable::get, the value or the empty String.
variable_get(store, name) ==
    IF name \in DOMAIN store THEN store[name] ELSE <<>>

\* Variable::set that keeps an earlier binding of the name.
variable_set_new(store, name, value) ==
    [n \in DOMAIN store \cup {name} |-> IF n \in DOMAIN store THEN store[n] ELSE value]

\* variable.rs: Variable::set, HashMap::insert.
variable_set(store, name, value) ==
    [n \in DOMAIN store \cup {name} |-> IF n = name THEN value ELSE store[n]]

\* variable.rs: Variable::get_all.
variable_get_all(store) == store

\* The inner loop of expand_variables stopped after one character.
var_name_first(chars) ==
    IF chars # <<>> /\ is_identifier_char(chars[1]) THEN <<chars[1]>> ELSE <<>>

\* executor.rs: the inner while loop of expand_variables; the longest prefix
\* of chars made of identifier characters.
RECURSIVE var_name_of(_)
var_name_of(chars) ==
    IF chars # <<>> /\ is_identifier_char(chars[1])
    THEN <<chars[1]>> \o var_name_of(Tail(chars))
    ELSE <<>>

\* The loop of expand_variables that looks the value up again in what it
\* has inserted.
RECURSIVE expand_again_loop(_, _, _)
expand_again_loop(store, expanded, chars) ==
    IF chars = <<>> THEN expanded
    ELSE IF chars[1] = "$" /\ Tail(chars) # <<>>
    THEN LET var_name == var_name_of(Tail(chars))
             after    == SubSeq(chars, Len(var_name) + 2, Len(chars))
         IN  IF var_name # <<>> /\ var_name \in DOMAIN store
             THEN expand_again_loop([n \in DOMAIN store \ {var_name} |-> store[n]], expanded,
                                    store[var_name] \o after)
             ELSE expand_again_loop(store, expanded, after)
    ELSE expand_again_loop(store, Append(expanded, chars[1]), Tail(chars))

expand_variables_again(store, arg) == expand_again_loop(store, <<>>, arg)

\* executor.rs: the outer while loop of expand_variables.
RECURSIVE expand_loop(_, _, _)
expand_loop(store, expanded, chars) ==
    IF chars = <<>> THEN expanded
    ELSE IF chars[1] = "$" /\ Tail(chars) # <<>>
    THEN LET var_name == var_name_of(Tail(chars))
             after    == SubSeq(chars, Len(var_name) + 2, Len(chars))
         IN  expand_loop(store,
                         IF var_name # <<>> THEN expanded \o variable_get(store, var_name)
                                            ELSE expanded,
                         after)
    ELSE expand_loop(store, Append(expanded, chars[1]), Tail(chars))

\* executor.rs: expand_variables.
expand_variables(store, arg) == expand_loop(store, <<>>, arg)

\* Command::env_clear left out: the child inherits the shell's environment.
env_keep(env) == env

\* std::process::Command::env_clear.
env_clear(env) == <<>>

\* std::process::Command::envs: the bindings of store added to env.
envs(env, store) ==
    [n \in DOMAIN env \cup DOMAIN store |-> IF n \in DOMAIN store THEN store[n] ELSE env[n]]

\* What SpecVar leaves alone.
nonvarvars == <<jobs, last, is_fg, tty, proc, wstat, sigchld, hpc, pc, cmd, cpid, arg_index,
                input, node, sched_lock, tpc, lexer, token,
                os_env, dirs, lookup, fg_wait>>

\* executor.rs: handle_builtin on "set", builtin_set.
BuiltinSetArgs(arguments) ==
    /\ IF Len(arguments) # 2
       THEN /\ result' = "InvalidInput"
            /\ local_vars' = local_vars
       ELSE /\ result' = "Ok"
            /\ local_vars' = variable_set(local_vars, arguments[1], arguments[2])
    /\ UNCHANGED <<child, nonvarvars>>

BuiltinSet == \E arguments \in SetArgLists : BuiltinSetArgs(arguments)

\* executor.rs: execute_command on an external command whose spawn succeeds:
\* the arguments are expanded, the environment is replaced by the store.
ExecExternal ==
    \E program \in Programs, arguments \in ExternalArgLists :
        /\ child' = [spawned       |-> TRUE,
                     program       |-> program,
                     original_args |-> arguments,
                     args          |-> [k \in 1..Len(arguments) |->
                                           expand_variables(local_vars, arguments[k])],
                     env           |-> envs(env_clear(InheritedEnv),
                                            variable_get_all(local_vars))]
        /\ result' = "Ok"
        /\ UNCHANGED <<local_vars, nonvarvars>>

\* executor.rs: spawn()? fails, execute_command returns the error.
ExecExternalFail ==
    /\ result' = "SpawnError"
    /\ UNCHANGED <<local_vars, child, nonvarvars>>

NextVar == BuiltinSet \/ ExecExternal \/ ExecExternalFail

SpecVar == Init /\ [][NextVar]_vars

\* ------------------------------------------- SpecLoop: Shell::run_loop

\* The words the read loop and handle_builtin compare with.
ExitWord == <<"e", "x", "i", "t">>

SetWord == <<"s", "e", "t">>

\* The lines typed at the prompt of SpecLoop that are handled without a job:
\* blank lines, `exit` with and without blanks around it, `exit a`, lines the
\* parser rejects, and `set` with too few arguments.  A line that names fg, bg
\* or an external program is one of the actions of Spec.
LoopLines ==
    {<<>>, <<" ">>,
     ExitWord, <<" ">> \o ExitWord \o <<" ">>, ExitWord \o <<" ", "a">>,
     <<">">>, <<"a", " ", "<">>,
     SetWord, SetWord \o <<" ", "a">>}

\* str::trim: the line without its leading and trailing whitespace.
RECURSIVE trim_end(_)
trim_end(s) ==
    IF s # <<>> /\ is_whitespace(s[Len(s)]) THEN trim_end(SubSeq(s, 1, Len(s) - 1)) ELSE s

trim(s) == trim_end(skip_whitespace(s))

\* The first command of a parsed node, the one Executor::execute runs.
first_command(n) == n.commands[1]

\* run_loop: readline returns Err(ReadlineError::Interrupted); the message is
\* printed and the loop goes round.
ReadInterrupted ==
    /\ MainRuns /\ pc = "prompt"
    /\ result' = "Interrupted"
    /\ pc' = "wait"
    /\ UNCHANGED <<jobs, last, is_fg, tty, proc, wstat, sigchld, hpc, cmd, cpid, arg_index>>
    /\ UNCHANGED auxvars

\* run_loop: readline returns Err(ReadlineError::Eof); break, and run()
\* saves the history and returns.
ReadEof ==
    /\ MainRuns /\ pc = "prompt"
    /\ pc' = "eof"
    /\ UNCHANGED <<jobs, last, is_fg, tty, proc, wstat, sigchld, hpc, cmd, cpid, arg_index,
                   result>>
    /\ UNCHANGED auxvars

\* A handle_input that hands the error of the command to run_loop.
handle_input_propagate(res) == res

\* handle_input: whatever the parser and the executor returned, the error is
\* printed and Ok(()) is returned.
handle_input_ret(res) == "Ok"

\* run_loop: self.handle_input(&line)?; an Err would leave the loop.
after_handle_input(res) == IF handle_input_ret(res) = "Ok" THEN "wait" ELSE "failed"

\* run_loop: readline returns Ok(line); `exit` leaves the process, any other
\* line goes to handle_input, which skips a blank line, reports a parse error,
\* and hands a parsed node to Executor::execute.  Of the builtins, `exit` and
\* `set` are run here.
ReadLineOf(line) ==
    /\ MainRuns /\ pc = "prompt"
    /\ LET parsed == parse_command(line)
       IN  IF trim(line) = ExitWord
            THEN /\ pc' = "exited"
                 /\ UNCHANGED <<result, cmd, local_vars>>
            ELSE IF trim(line) = <<>>
            THEN /\ pc' = after_handle_input("Ok")
                 /\ result' = "Skipped"
                 /\ UNCHANGED <<cmd, local_vars>>
            ELSE IF ~parsed.ok
            THEN /\ pc' = after_handle_input("ParseError")
                 /\ result' = "ParseError"
                 /\ UNCHANGED <<cmd, local_vars>>
            ELSE /\ parsed.commands # <<>>
                 /\ LET command == first_command(parsed)
                    IN  /\ command.program \in {ExitWord, SetWord}
                        /\ IF command.program = ExitWord
                            THEN /\ pc' = "exited"
                                 /\ cmd' = "exit"
                                 /\ UNCHANGED <<result, local_vars>>
                            ELSE /\ pc' = after_handle_input(result')
                                 /\ cmd' = "set"
                                 /\ IF Len(command.arguments) # 2
                                     THEN /\ result' = "InvalidInput"
                                          /\ local_vars' = local_vars
                                     ELSE /\ result' = "Ok"
                                          /\ local_vars' = variable_set(local_vars,
                                                 command.arguments[1], command.arguments[2])
    /\ UNCHANGED <<jobs, last, is_fg, tty, proc, wstat, sigchld, hpc, cpid, arg_index>>
    /\ UNCHANGED <<input, node, sched_lock, tpc, lexer, token, child, os_env, dirs,
                   lookup, fg_wait>>

ReadLine == \E line \in LoopLines : ReadLineOf(line)

NextLoop == Next \/ ReadInterrupted \/ ReadEof \/ ReadLine

SpecLoop == Init /\ [][NextLoop]_vars

\* ------------------------------ SpecEnv: assignments and the environment

ExportWord == <<"e", "x", "p", "o", "r", "t">>

\* The names assigned to: P is in the environment the shell was started
\* with, L is not.
AssignNames == {<<"P">>, <<"L">>}

\* The texts after the `=`: plain, a reference to each name, and a quoted one.
AssignValues == {<<"v">>, <<"w">>, <<"$", "P">>, <<"$", "L">>, <<"'", "v", "'">>}

\* The words of an assignment line: NAME=VALUE, and a name without `=`.
AssignWords == {n \o <<"=">> \o v : n \in AssignNames, v \in AssignValues} \cup {<<"L">>}

\* str::contains(c).
contains(s, c) == \E i \in DOMAIN s : s[i] = c

\* The lines handle_input takes for assignments: the first word holds a `=`
\* or is `export`; one or two words follow.
AssignArgLists ==
    {<<a>> : a \in AssignWords \ {<<"L">>}}
        \cup {<<a, b>> : a \in AssignWords \ {<<"L">>}, b \in AssignWords}
        \cup {<<ExportWord, a>> : a \in AssignWords}
        \cup {<<ExportWord, a, b>> : a \in AssignWords, b \in AssignWords}

\* str::split_once('='): the text before and after the first `=`, if any.
split_once(s, c) ==
    IF contains(s, c)
    THEN LET i == CHOOSE k \in DOMAIN s : s[k] = c /\ \A j \in 1..(k - 1) : s[j] # c
         IN  Some(<<SubSeq(s, 1, i - 1), SubSeq(s, i + 1, Len(s))>>)
    ELSE None

\* str::trim_matches(c): the text without its leading and trailing c.
RECURSIVE trim_matches(_, _)
trim_matches(s, c) ==
    IF s # <<>> /\ s[1] = c THEN trim_matches(Tail(s), c)
    ELSE IF s # <<>> /\ s[Len(s)] = c THEN trim_matches(SubSeq(s, 1, Len(s) - 1), c)
    ELSE s

\* The characters of a variable name in the words above.
EnvNameChars == {"P", "L", "v", "w"}

\* The run of name characters at the head of s.
RECURSIVE env_name_of(_)
env_name_of(s) ==
    IF s # <<>> /\ s[1] \in EnvNameChars THEN <<s[1]>> \o env_name_of(Tail(s)) ELSE <<>>

\* shellexpand::env: every $NAME is replaced by the value std::env::var gives;
\* a name that is not in the environment is a LookupError; a `$` without a
\* name stays.
RECURSIVE shellexpand_env(_, _, _)
shellexpand_env(env, expanded, s) ==
    IF s = <<>> THEN [ok |-> TRUE, value |-> expanded]
    ELSE IF s[1] = "$" /\ env_name_of(Tail(s)) # <<>>
    THEN LET name == env_name_of(Tail(s))
         IN  IF name \in DOMAIN env
             THEN shellexpand_env(env, expanded \o env[name],
                                  SubSeq(s, Len(name) + 2, Len(s)))
             ELSE [ok |-> FALSE, value |-> <<>>]
    ELSE shellexpand_env(env, expanded \o <<s[1]>>, Tail(s))

\* env::set_var / HashMap::insert on a map from names to values.
env_set_var(env, name, value) ==
    [n \in DOMAIN env \cup {name} |-> IF n = name THEN value ELSE env[n]]

\* handle_variable_assignment: args[0] == "export" || env::var(&name).is_ok().
is_system_env(env, args, name) == args[1] = ExportWord \/ name \in DOMAIN env

\* handle_variable_assignment: the loop over the words, from word k on.  st
\* holds the store, the environment and whether a `?` has returned an error.
RECURSIVE assignment_loop(_, _, _)
assignment_loop(st, args, k) ==
    IF k > Len(args) \/ ~st.ok THEN st
    ELSE LET split == split_once(args[k], "=")
         IN  IF ~IsSome(split) THEN assignment_loop(st, args, k + 1)
             ELSE LET name  == trim(split[1][1])
                      value == shellexpand_env(st.env, <<>>, trim(split[1][2]))
                      text  == trim_matches(trim_matches(value.value, "\""), "'")
                  IN  IF ~value.ok THEN [st EXCEPT !.ok = FALSE]
                      ELSE IF is_system_env(st.env, args, name)
                      THEN assignment_loop(
                               [st EXCEPT !.env = env_set_var(st.env, name, text)],
                               args, k + 1)
                      ELSE assignment_loop(
                               [st EXCEPT !.local = env_set_var(st.local, name, text)],
                               args, k + 1)

handle_variable_assignment(local, env, args) ==
    assignment_loop([local |-> local, env |-> env, ok |-> TRUE], args,
                    IF args[1] = ExportWord THEN 2 ELSE 1)

\* What SpecEnv leaves alone.
nonenvvars == <<jobs, last, is_fg, tty, proc, wstat, sigchld, hpc, pc, cmd, cpid, arg_index,
                input, node, sched_lock, tpc, lexer, token,
                dirs, lookup, fg_wait>>

\* handle_input on a line whose first word holds a `=` or is `export`.
HandleAssignmentOf(args) ==
    /\ LET st == handle_variable_assignment(local_vars, os_env, args)
       IN  /\ local_vars' = st.local
           /\ os_env' = st.env
           /\ result' = IF st.ok THEN "Ok" ELSE "LookupError"
    /\ UNCHANGED <<child, nonenvvars>>

HandleAssignment == \E args \in AssignArgLists : HandleAssignmentOf(args)

\* CommandExecutor::execute: the child gets the environment of the shell
\* extended with the store.
CommandExecutorExecute ==
    /\ child' = [spawned       |-> TRUE,
                 program       |-> <<"s", "h">>,
                 original_args |-> <<>>,
                 args          |-> <<>>,
                 env           |-> [n \in DOMAIN os_env \cup DOMAIN local_vars |->
                                       IF n \in DOMAIN local_vars THEN local_vars[n]
                                       ELSE os_env[n]]]
    /\ result' = "Ok"
    /\ UNCHANGED <<local_vars, os_env, nonenvvars>>

NextEnv == HandleAssignment \/ CommandExecutorExecute

SpecEnv == Init /\ [][NextEnv]_vars

\* ------------------------------------------ SpecPath: find_file_in_path

PathName == <<"P", "A", "T", "H">>

\* The characters of a value of PATH: two letters and the separator.
PathChars == {"x", "y", ":"}

\* The directories that may exist, and the file names looked for.
DirNames == {<<"x">>, <<"y">>}

FileNames == {<<"a">>, <<"b">>}

\* st_mode permission bits: 0o000, 0o001, 0o010, 0o100, 0o644, 0o755.
Modes == {0, 1, 8, 64, 420, 493}

\* The entries a directory may hold: `a` is absent, has one of the modes, or
\* its metadata cannot be read; `b` is absent or an executable.
EntrySets ==
    {e \in UNION {[S -> [meta_ok : BOOLEAN, mode : Modes]] : S \in SUBSET FileNames} :
        /\ \A n \in DOMAIN e : ~e[n].meta_ok => e[n].mode = 0
        /\ <<"b">> \in DOMAIN e => (e[<<"b">>].meta_ok /\ e[<<"b">>].mode = 493)}

\* What read_dir gives for a directory: an error or the entries.
DirStates ==
    {[kind |-> "NotFound", entries |-> <<>>], [kind |-> "PermissionDenied", entries |-> <<>>]}
        \cup {[kind |-> "Ok", entries |-> e] : e \in EntrySets}

\* env::var("PATH").
env_var(env, name) == IF name \in DOMAIN env THEN Some(env[name]) ELSE None

\* str::split(':'): the pieces between the separators, read left to right.
RECURSIVE split_loop(_, _, _)
split_loop(piece, s, c) ==
    IF s = <<>> THEN <<piece>>
    ELSE IF s[1] = c THEN <<piece>> \o split_loop(<<>>, Tail(s), c)
    ELSE split_loop(piece \o <<s[1]>>, Tail(s), c)

split(s, c) == split_loop(<<>>, s, c)

\* std::fs::read_dir(p): a path that names no directory is NotFound.
read_dir(fs, p) ==
    IF p \in DOMAIN fs THEN fs[p] ELSE [kind |-> "NotFound", entries |-> <<>>]

\* A test of the owner's execute bit alone.
bit_and_owner(a, b) == (a \div 64) % 2

\* The bitwise and of two naturals.
RECURSIVE bit_and(_, _)
bit_and(a, b) ==
    IF a = 0 \/ b = 0 THEN 0
    ELSE (a % 2) * (b % 2) + 2 * bit_and(a \div 2, b \div 2)

\* DirEntry::path(): the directory joined with the file name.
entry_path(p, name) == p \o <<"/">> \o name

\* find_file_in_path: the loop over vec_path, from directory k on.  Names in
\* one directory are distinct, so at most one entry passes the name test.
RECURSIVE find_in_dirs(_, _, _, _, _)
find_in_dirs(fs, vec_path, k, filename, exec) ==
    IF k > Len(vec_path) THEN <<>>
    ELSE LET list == read_dir(fs, vec_path[k])
         IN  IF list.kind # "Ok" \/ filename \notin DOMAIN list.entries
             THEN find_in_dirs(fs, vec_path, k + 1, filename, exec)
             ELSE LET entry == list.entries[filename]
                  IN  IF exec /\ (~entry.meta_ok \/ bit_and(entry.mode, 73) = 0)
                      THEN find_in_dirs(fs, vec_path, k + 1, filename, exec)
                      ELSE entry_path(vec_path[k], filename)

find_file_in_path(env, fs, filename, exec) ==
    LET env_path == env_var(env, PathName)
    IN  IF ~IsSome(env_path) THEN <<>>
        ELSE find_in_dirs(fs, split(env_path[1], ":"), 1, filename, exec)

\* Any PATH of at most MaxPath characters, or none, and any state of the two
\* directories.
InitPath ==
    /\ InitShell /\ input = <<>> /\ lexer = <<>>
    /\ lookup = NoLookup /\ fg_wait = NoWait
    /\ \/ os_env = InheritedEnv
       \/ \E n \in 0..MaxPath : \E s \in [1..n -> PathChars] :
              os_env = env_set_var(InheritedEnv, PathName, s)
    /\ dirs \in [DirNames -> DirStates]

FindFileInPath ==
    /\ \E filename \in FileNames, exec \in BOOLEAN :
          lookup' = [called |-> TRUE, filename |-> filename, exec |-> exec,
                     ret |-> find_file_in_path(os_env, dirs, filename, exec)]
    /\ UNCHANGED <<jobs, last, is_fg, tty, proc, wstat, sigchld, hpc, pc, cmd, cpid,
                   arg_index, result, input, node, sched_lock, tpc, lexer, token,
                   local_vars, child, os_env, dirs, fg_wait>>

NextPath == FindFileInPath

SpecPath == InitPath /\ [][NextPath]_vars

\* -------------------------------------- SpecWait: JobManager::wait_fg_job

\* What wait_fg_job and its caller leave alone.
nonwaitvars == <<last, is_fg, tty, hpc, cmd, cpid, arg_index, result, input, node,
                 sched_lock, tpc, lexer, token, local_vars, child, os_env, dirs, lookup>>

\* The pid lists wait_fg_job may be called with: distinct pids, in any order.
FgPidLists ==
    {l \in UNION {[1..n -> Pids] : n \in 0..MaxProc} :
        \A i, j \in 1..Len(l) : l[i] = l[j] => i = j}

\* <[i32]>::contains.
pids_contains(l, pid) == \E i \in 1..Len(l) : l[i] = pid

\* The caller of wait_fg_job: a process of a job is forked and add_job
\* records it, with the signals masked.
WfjSpawn ==
    /\ pc = "prompt"
    /\ \E p \in Pids : proc[p] = "none"
    /\ LET pid == fresh_pid(Pids)
       IN  /\ proc' = [proc EXCEPT ![pid] = "running"]
           /\ jobs' = add_job(jobs, pid)
    /\ UNCHANGED <<wstat, sigchld, pc, fg_wait, nonwaitvars>>

\* wait_fg_job(gid, pids) is entered: count_waited = 0, and an empty pids
\* returns at once.  A return leaves the caller where it was.
WfjCall ==
    /\ pc = "prompt"
    /\ \E l \in FgPidLists :
        /\ \A i \in 1..Len(l) : l[i] \in JobPids(jobs)
        /\ fg_wait' = [pids |-> l, count_waited |-> 0, error |-> FALSE]
        /\ pc' = IF Len(l) = 0 THEN "prompt" ELSE "wait_fg_job"
    /\ UNCHANGED <<jobs, proc, wstat, sigchld, nonwaitvars>>

\* One turn of the loop of wait_fg_job in which waitpidx(-1, true) returns
\* the state change of the child p.
WfjWaitpid ==
    /\ pc = "wait_fg_job"
    /\ \E p \in Pids :
        /\ wstat[p] # "none"
        /\ wstat' = [wstat EXCEPT ![p] = "none"]
        /\ proc' = IF wstat[p] \in {"exited", "signaled"}
                   THEN [proc EXCEPT ![p] = "reaped"]
                   ELSE proc
        /\ LET is_a_fg_child == pids_contains(fg_wait.pids, p)
               count_waited  == IF is_a_fg_child /\ wstat[p] # "continued"
                                THEN fg_wait.count_waited + 1
                                ELSE fg_wait.count_waited
           IN  /\ fg_wait' = [fg_wait EXCEPT !.count_waited = count_waited]
               /\ jobs' = CASE wstat[p] \in {"exited", "signaled"} ->
                                  IF is_a_fg_child THEN mark_job_as_done(jobs, p) ELSE jobs
                            [] wstat[p] = "stopped" -> mark_job_stopped(jobs, p)
                            [] OTHER -> jobs
               /\ pc' = IF wstat[p] # "continued" /\ count_waited >= Len(fg_wait.pids)
                        THEN "prompt" ELSE "wait_fg_job"
    /\ UNCHANGED <<sigchld, nonwaitvars>>

\* waitpidx(-1, true) fails with ECHILD when no child is left: break.
WfjEchild ==
    /\ pc = "wait_fg_job"
    /\ \A p \in Pids : proc[p] \in {"none", "reaped"}
    /\ fg_wait' = [fg_wait EXCEPT !.error = TRUE]
    /\ pc' = "prompt"
    /\ UNCHANGED <<jobs, proc, wstat, sigchld, nonwaitvars>>

NextWait ==
    \/ WfjSpawn
    \/ WfjCall
    \/ WfjWaitpid
    \/ WfjEchild
    \/ ChildExit
    \/ ChildKilled
    \/ ChildStop
    \/ ChildCont

SpecWait == Init /\ [][NextWait]_vars

\* ------------------------------------------------------------------ claims

IndicesDistinct(js) ==
    \A k, m \in 1..Len(js) : js[k].index = js[m].index => k = m

Marks(job) == <<job.is_current, job.is_previous>>

\* The table without the job of the given pid, the other jobs as they are.
RECURSIVE Others(_, _)
Others(js, pid) ==
    IF js = <<>> THEN <<>>
    ELSE IF Head(js).pid = pid THEN Others(Tail(js), pid)
    ELSE <<Head(js)>> \o Others(Tail(js), pid)

\* A remove_job call that removed the current job from a table in which no
\* job was marked previous.
RemovedCurrentNoPrevious(call) ==
    /\ call.op = "remove_job"
    /\ IsSome(call.ret)
    /\ call.ret[1].is_current
    /\ call.prev = None

\* The child of the external command the shell waits for had its exit, its
\* termination or its stop reaped by the handler.
Observed(p) ==
    \/ proc[p] = "reaped"
    \/ proc[p] = "stopped" /\ wstat[p] = "none"

\* C1: once execute_command has returned for an external command and the
\* handler has observed that the child exited, was killed or stopped, the
\* scheduler flag is true (so wait_until_foreground returns), whatever the
\* interleaving of the handler with spawn, tcsetpgrp, add_job and pause.
C1_ResumedOnceObserved ==
    (pc = "wait" /\ cmd = "external" /\ result = "Ok" /\ Observed(cpid)) => is_fg

\* C2: in every reachable job table at most one job is current, at most one
\* is previous, and no job is both.
C2_MarksExclusive ==
    /\ Cardinality(Currents(jobs)) <= 1
    /\ Cardinality(Previouses(jobs)) <= 1
    /\ Currents(jobs) \cap Previouses(jobs) = {}

C2_Witness ==
    /\ last.op \in {"remove_job", "fg", "bg_exec"}
    /\ Len(jobs) >= 2
    /\ Currents(jobs) # {}
    /\ Previouses(jobs) # {}

\* C3: add_job marks the new job current, and the job that was current
\* before the call is previous and no longer current after it.
C3_AddJobMarksPrevious ==
    [][last'.op = "add_job" =>
        /\ jobs'[Len(jobs')].pid = last'.arg[1]
        /\ jobs'[Len(jobs')].is_current
        /\ \A k \in 1..Len(jobs) :
             jobs[k].is_current =>
                jobs'[k].is_previous /\ ~jobs'[k].is_current]_vars

\* C4: add_job(B) immediately followed by remove_job(B) makes the job that
\* was current before add_job the current job again.
C4_AddRemoveRestoresCurrent ==
    [][(/\ last.op = "add_job"
        /\ IsSome(last.cur)
        /\ last'.op = "remove_job"
        /\ last'.arg = last.arg) =>
            \E k \in Currents(jobs') : jobs'[k].pid = last.cur[1]]_vars

\* C5: remove_job removes exactly the job with the given pid; if that job
\* was current and a remaining job was previous, that job is current and no
\* longer previous; if it was not current, every remaining job keeps its marks.
C5_RemoveJob ==
    [][last'.op = "remove_job" =>
        LET pid    == last'.arg[1]
            others == Others(jobs, pid)
            was_current == \E k \in 1..Len(jobs) :
                               jobs[k].pid = pid /\ jobs[k].is_current
        IN  /\ Len(jobs') = Len(others)
            /\ \A k \in 1..Len(others) :
                 /\ jobs'[k].pid = others[k].pid
                 /\ jobs'[k].index = others[k].index
                 /\ jobs'[k].status = others[k].status
                 /\ was_current /\ others[k].is_previous =>
                        jobs'[k].is_current /\ ~jobs'[k].is_previous
                 /\ ~was_current => Marks(jobs'[k]) = Marks(others[k])]_vars

C5_Witness ==
    /\ last.op = "remove_job"
    /\ IsSome(last.ret)
    /\ last.ret[1].is_current
    /\ IsSome(last.prev)
    /\ \E k \in Currents(jobs) : jobs[k].pid = last.prev[1]
    /\ Len(jobs) >= 2

\* C6 as claimed: when remove_job removes the current job and no remaining
\* job is previous, the remaining job with the highest index becomes current.
C6_PromotesHighestIndex ==
    [][RemovedCurrentNoPrevious(last') /\ Len(jobs') > 0 =>
        \E k \in Currents(jobs') :
            \A m \in 1..Len(jobs') : jobs'[m].index <= jobs'[k].index]_vars

\* C6 as amended: when remove_job removes the current job and no remaining
\* job is previous, the remaining job that is last in table order becomes
\* current, and only that job.
C6_PromotesLastInTable ==
    [][RemovedCurrentNoPrevious(last') /\ Len(jobs') > 0 =>
        Currents(jobs') = {Len(jobs')}]_vars

C6_Witness ==
    /\ RemovedCurrentNoPrevious(last)
    /\ Len(jobs) >= 2
    /\ jobs[Len(jobs)].is_current
    /\ \E m \in 1..Len(jobs) : jobs[m].index > jobs[Len(jobs)].index

\* C7: add_job gives the new job the lowest positive integer that is no
\* index of a job in the table, and the indices of the jobs in the table
\* are always pairwise distinct.
C7_LowestFreeIndex ==
    [][/\ IndicesDistinct(jobs')
       /\ last'.op = "add_job" =>
            LET new == jobs'[Len(jobs')].index
            IN  /\ new >= 1
                /\ new \notin JobIndices(jobs)
                /\ \A i \in 1..(new - 1) : i \in JobIndices(jobs)]_vars

C7_Witness ==
    /\ last.op = "add_job"
    /\ \E m \in 1..Len(jobs) : jobs[m].index > jobs[Len(jobs)].index

\* C8: fg without an argument resolves to the job marked current and finds
\* nothing when no job is current; fg %N resolves to the job whose index is
\* N, and fails with NotFound when no job has index N.
C8_FgResolves ==
    [][(pc = "prompt" /\ cmd' = "fg" /\ result' # "InvalidInput") =>
        LET found == {k \in 1..Len(jobs) :
                        IF IsSome(arg_index')
                        THEN jobs[k].index = arg_index'[1]
                        ELSE jobs[k].is_current}
        IN  IF found = {}
            THEN result' = "NotFound" /\ pc' = "wait" /\ jobs' = jobs
            ELSE /\ pc' = "fg_resolved"
                 /\ \A k \in 1..Len(jobs) : jobs[k].pid = cpid' <=> k \in found]_vars

C8_Witness ==
    /\ pc = "fg_resolved"
    /\ IsSome(arg_index)
    /\ Len(jobs) >= 2
    /\ \E k \in Currents(jobs) : jobs[k].pid = cpid /\ jobs[k].index = arg_index[1]
    /\ Previouses(jobs) # {}

\* C9: while a job runs in the foreground (its group owns the terminal and
\* the shell is blocked), the handler reaping a state change of any other
\* child leaves the terminal with that job and the scheduler flag false.
C9_OtherChildLeavesForeground ==
    [][\A p \in Pids :
        (/\ hpc = "loop" /\ wstat[p] # "none" /\ wstat'[p] = "none"
         /\ pc = "wait" /\ cmd \in {"external", "fg"} /\ result = "Ok"
         /\ p # cpid
         /\ proc[cpid] = "running" /\ tty = cpid /\ ~is_fg) =>
            (tty' = tty /\ is_fg' = is_fg)]_vars

\* C10: once the handler has reaped the exit or the termination of a child,
\* no job with that pid is in the table.
C10_ReapedJobRemoved ==
    \A p \in Pids : proc[p] = "reaped" => p \notin JobPids(jobs)

\* C11: the handler never executes a table mutation (mark_suspended on a
\* stop, remove_job on an exit or a kill) while a table mutation of the main
\* loop is in progress, here add_job between its push and its update_marks;
\* the main loop never runs while the handler does (MainRuns).
C11_HandlerExcludesMainMutation ==
    [][(/\ hpc = "loop"
        /\ \E p \in Pids : /\ wstat[p] \in {"stopped", "exited", "signaled"}
                           /\ wstat'[p] = "none") =>
            pc # "ec_pushed"]_vars

\* C12: whenever wait_until_foreground returns after the handler observed the
\* foreground job exit, be killed or stop, the table reflects it: the job is
\* no longer in the table, or it is there with status Suspended.
C12_ChangeVisibleAtPrompt ==
    [][(/\ pc = "wait" /\ pc' = "prompt"
        /\ cmd \in {"external", "fg"} /\ result = "Ok"
        /\ Observed(cpid)) =>
            /\ proc[cpid] = "reaped" => cpid \notin JobPids(jobs)
            /\ proc[cpid] = "stopped" =>
                    \E k \in 1..Len(jobs) :
                        jobs[k].pid = cpid /\ jobs[k].status = "Suspended"]_vars

\* C13: wait_until_foreground returns only in a state where the flag is true;
\* pause leaves the flag false and resume leaves it true, whatever it was;
\* and no other step changes the flag.
C13_SchedulerFlag ==
    [][/\ \A t \in Threads :
            /\ (tpc[t] = "w_check" /\ tpc'[t] = "idle") => (is_fg /\ is_fg')
            /\ (tpc[t] = "p_set" /\ tpc'[t] = "idle") => ~is_fg'
            /\ (tpc[t] = "r_set" /\ tpc'[t] = "idle") => is_fg'
       /\ is_fg' # is_fg =>
            \E t \in Threads : tpc[t] \in {"p_set", "r_set"} /\ tpc'[t] = "idle"]_vars

\* A waiter was woken while the flag is false, and pause is about to run on
\* a flag that is already false.
C13_Witness ==
    /\ ~is_fg
    /\ \E t, u \in Threads : tpc[t] = "w_woken" /\ tpc[u] = "p_set"

\* The positions a job argument names: the job of that index, or without an
\* index the job marked current.
Named(js, index) ==
    {k \in 1..Len(js) : IF IsSome(index) THEN js[k].index = index[1]
                                         ELSE js[k].is_current}

\* C14: when builtin_fg returns Ok, the resolved job has status Continued and
\* is the current job, the terminal belongs to its process group, a stopped
\* process was continued by SIGCONT, and the scheduler flag is false.
C14_FgForegrounds ==
    [][(pc = "fg_tty" /\ pc' = "wait") =>
            /\ result' = "Ok"
            /\ ~is_fg'
            /\ tty' = cpid
            /\ \E k \in Named(jobs', arg_index) :
                    /\ jobs'[k].pid = cpid
                    /\ jobs'[k].status = "Continued"
                    /\ jobs'[k].is_current
            /\ proc[cpid] = "stopped" =>
                    proc'[cpid] = "running" /\ wstat'[cpid] = "continued"]_vars

\* C15: bg resolves its job as fg does, sets its status to Continued and
\* sends SIGCONT to its process group; neither step of builtin_bg changes the
\* scheduler flag or the terminal's foreground group, and the flag is true
\* when builtin_bg returns.
C15_BgBackgrounds ==
    [][/\ (pc = "prompt" /\ pc' = "bg_resolved") =>
            /\ \E k \in Named(jobs, arg_index') :
                    /\ jobs[k].pid = cpid'
                    /\ jobs'[k].status = "Continued"
            /\ Len(jobs') = Len(jobs)
            /\ is_fg' = is_fg /\ tty' = tty
       /\ (pc = "bg_resolved" /\ pc' = "wait") =>
            /\ result' = "Ok"
            /\ proc[cpid] = "stopped" =>
                    proc'[cpid] = "running" /\ wstat'[cpid] = "continued"
            /\ jobs' = jobs
            /\ is_fg' = is_fg /\ tty' = tty
            /\ is_fg']_vars

C15_Witness ==
    /\ pc = "wait" /\ cmd = "bg" /\ result = "Ok"
    /\ IsSome(arg_index)
    /\ is_fg /\ tty = SHELL
    /\ proc[cpid] = "running" /\ wstat[cpid] = "continued"
    /\ \E k \in 1..Len(jobs) :
            jobs[k].pid = cpid /\ jobs[k].status = "Continued" /\ ~jobs[k].is_current

\* "%" followed by a number: decimal digits, which usize's parse also
\* accepts behind a "+" sign.
IsJobSpec(w) ==
    /\ Len(w) >= 2
    /\ w[1] = "%"
    /\ \/ \A k \in 2..Len(w) : w[k] \in Digits
       \/ Len(w) >= 3 /\ w[2] = "+" /\ \A k \in 3..Len(w) : w[k] \in Digits

\* C16: fg and bg report an argument that is not of the form %<number> as
\* InvalidInput and a %N that names no job of the table as NotFound; in both
\* cases the table, the scheduler flag, the terminal and every process are
\* left as they were and no signal is sent.
C16_ErrorsLeaveState ==
    [][(pc = "prompt" /\ cmd' \in {"fg", "bg"}) =>
       \A a \in JobArgs :
        (BuiltinFgArg(a) \/ BuiltinBgArg(a)) =>
            LET malformed == IsSome(a) /\ ~IsJobSpec(a[1])
                missing   == /\ IsSome(a) /\ IsJobSpec(a[1])
                             /\ Named(jobs, arg_index') = {}
            IN  /\ malformed => result' = "InvalidInput"
                /\ missing => result' = "NotFound"
                /\ (malformed \/ missing) =>
                        /\ pc' = "wait"
                        /\ jobs' = jobs
                        /\ is_fg' = is_fg /\ tty' = tty
                        /\ proc' = proc /\ wstat' = wstat /\ sigchld' = sigchld]_vars

C16_Witness ==
    /\ pc = "wait" /\ cmd \in {"fg", "bg"}
    /\ result = "NotFound"
    /\ IsSome(arg_index)
    /\ Len(jobs) >= 2
    /\ \E k \in 1..Len(jobs) : jobs[k].status = "Suspended"

\* The tokens the lexer returns for a line, up to EndOfInput.
RECURSIVE Tokens(_)
Tokens(s) ==
    LET t == next_token(s)
    IN  IF t.tok = EOF THEN <<>> ELSE <<t.tok>> \o Tokens(t.rest)

\* A line in which a command name is missing: it holds no token, it begins
\* with an operator, or a pipe of its first pipeline is not followed by a word.
MissingName(line) ==
    LET toks == Tokens(line)
    IN  \/ toks = <<>>
        \/ toks[1].type # "Word"
        \/ \E i \in 1..Len(toks) :
              /\ toks[i].type = "Pipe"
              /\ \A j \in 1..(i - 1) : toks[j].type \notin {"Semi", "Background"}
              /\ i = Len(toks) \/ toks[i + 1].type # "Word"

\* C17: every Node::Pipeline parse_command returns has at least 2 elements,
\* and a single command is returned as Node::Command.
C17_PipelineAtLeastTwo ==
    node.ok =>
        /\ node.kind = "Pipeline" => Len(node.commands) >= 2
        /\ Len(node.commands) = 1 => node.kind = "Command"

\* C18: parse_command returns an error for every line in which a command name
\* is missing, and no Command of a Node it returns has the empty program.
C18_MissingNameIsError ==
    node # NotParsed =>
        /\ MissingName(input) => ~node.ok
        /\ node.ok => \A k \in 1..Len(node.commands) : node.commands[k].program # <<>>

\* The pieces of s between the occurrences of the character c.
RECURSIVE SplitOn(_, _)
SplitOn(s, c) ==
    IF \A k \in 1..Len(s) : s[k] # c THEN <<s>>
    ELSE LET i == CHOOSE k \in 1..Len(s) : s[k] = c /\ \A j \in 1..(k - 1) : s[j] # c
         IN  <<SubSeq(s, 1, i - 1)>> \o SplitOn(SubSeq(s, i + 1, Len(s)), c)

NonEmpty(w) == w # <<>>

\* The words of s: its maximal runs of characters other than the blank.
WordsOf(s) == SelectSeq(SplitOn(s, " "), NonEmpty)

\* The command made of the words ws: the first is the program, the others
\* are the arguments.
CommandOf(ws) ==
    [program |-> Head(ws), arguments |-> Tail(ws), redirections |-> <<>>,
     background |-> FALSE]

Letters == {"a", "b"}

\* C19: a line of words separated by blanks, with no operator, parses to
\* Node::Command whose program is the first word and whose arguments are the
\* other words in their order, with no redirection and background = false.
C19_SimpleCommand ==
    (/\ node # NotParsed
     /\ \A k \in 1..Len(input) : input[k] \in Letters \cup {" "}
     /\ WordsOf(input) # <<>>) =>
        node = [ok |-> TRUE, kind |-> "Command",
                commands |-> <<CommandOf(WordsOf(input))>>, error |-> ""]

C19_Witness ==
    /\ node.ok /\ node.kind = "Command"
    /\ \A k \in 1..Len(input) : input[k] \in Letters \cup {" "}
    /\ Len(node.commands[1].arguments) = 2
    /\ node.commands[1].arguments[1] # node.commands[1].arguments[2]

\* C20: a line of n >= 2 simple commands joined by | parses to Node::Pipeline
\* with exactly n entries, left to right, each with its own program and
\* arguments.
C20_Pipeline ==
    LET segments == SplitOn(input, "|")
    IN  (/\ node # NotParsed
         /\ \A k \in 1..Len(input) : input[k] \in Letters \cup {" ", "|"}
         /\ Len(segments) >= 2
         /\ \A i \in 1..Len(segments) : WordsOf(segments[i]) # <<>>) =>
            node = [ok |-> TRUE, kind |-> "Pipeline",
                    commands |-> [i \in 1..Len(segments) |-> CommandOf(WordsOf(segments[i]))],
                    error |-> ""]

C20_Witness ==
    /\ node.ok /\ node.kind = "Pipeline"
    /\ \A k \in 1..Len(input) : input[k] \in Letters \cup {" ", "|"}
    /\ Len(node.commands) = 3
    /\ node.commands[1].program # node.commands[2].program

\* The positions of toks after the first that hold a Word, in their order,
\* restricted to those that follow a redirection operator (filenames = TRUE)
\* or to the others (filenames = FALSE).
RECURSIVE WordPositions(_, _, _)
WordPositions(toks, i, filenames) ==
    IF i > Len(toks) THEN <<>>
    ELSE IF toks[i].type = "Word" /\ (toks[i - 1].type = "Redirect") = filenames
    THEN <<i>> \o WordPositions(toks, i + 1, filenames)
    ELSE WordPositions(toks, i + 1, filenames)

\* C21: in a single command every redirection operator followed by a word
\* gives one Redirection with that operator and that word as filename, in the
\* order of the line, and the filename words are not among the arguments.
C21_Redirections ==
    LET toks  == Tokens(input)
        files == WordPositions(toks, 2, TRUE)
        args  == WordPositions(toks, 2, FALSE)
    IN  /\ (/\ node # NotParsed
             /\ toks # <<>>
             /\ toks[1].type = "Word"
             /\ \A i \in 1..Len(toks) :
                   /\ toks[i].type \in {"Word", "Redirect"}
                   /\ toks[i].type = "Redirect" => (i < Len(toks) /\ toks[i + 1].type = "Word")) =>
                /\ node.ok /\ node.kind = "Command"
                /\ node.commands[1].program = toks[1].text
                /\ node.commands[1].redirections =
                      [k \in 1..Len(files) |->
                          [operator |-> toks[files[k] - 1].op, filename |-> toks[files[k]].text]]
                /\ node.commands[1].arguments = [k \in 1..Len(args) |-> toks[args[k]].text]
                /\ ~node.commands[1].background
        /\ parse_command(<<"e", "c", "h", "o", " ", "h", "i", " ", ">", " ",
                              "o", "u", "t", ".", "t", "x", "t">>) =
                [ok |-> TRUE, kind |-> "Command", error |-> "",
                 commands |-> <<[program |-> <<"e", "c", "h", "o">>,
                                 arguments |-> << <<"h", "i">> >>,
                                 redirections |->
                                    <<[operator |-> "Output",
                                       filename |-> <<"o", "u", "t", ".", "t", "x", "t">>]>>,
                                 background |-> FALSE]>>]

C21_Witness ==
    /\ node.ok /\ node.kind = "Command"
    /\ Len(node.commands[1].redirections) = 2
    /\ node.commands[1].redirections[1].operator = "Output"
    /\ node.commands[1].redirections[2].operator = "Input"
    /\ node.commands[1].redirections[1].filename # node.commands[1].redirections[2].filename

\* The number of tokens of type t among the first n tokens of toks.
Count(toks, n, t) == Cardinality({j \in 1..n : toks[j].type = t})

\* C22 as claimed: parse_command returns an error whenever a redirection
\* operator of the line is not immediately followed by a word.
C22_DanglingRedirectionAnywhere ==
    LET toks == Tokens(input)
    IN  (/\ node # NotParsed
         /\ \E i \in 1..Len(toks) :
               /\ toks[i].type = "Redirect"
               /\ i = Len(toks) \/ toks[i + 1].type # "Word") => ~node.ok

\* C22, amended: parse_command returns an error whenever a redirection
\* operator that comes before the first ; and the first & of the line is not
\* immediately followed by a word.
C22_DanglingRedirection ==
    LET toks == Tokens(input)
    IN  (/\ node # NotParsed
         /\ \E i \in 1..Len(toks) :
               /\ toks[i].type = "Redirect"
               /\ i = Len(toks) \/ toks[i + 1].type # "Word"
               /\ \A j \in 1..(i - 1) : toks[j].type \notin {"Semi", "Background"}) =>
            ~node.ok

C22_Witness ==
    LET toks == Tokens(input)
    IN  /\ node # NotParsed /\ ~node.ok
        /\ node.error = "Expected filename after redirection operator"
        /\ Len(toks) = 4
        /\ toks[1].type = "Word" /\ toks[2].type = "Redirect"
        /\ toks[3].type = "Pipe" /\ toks[4].type = "Word"

\* C23: on & the parser sets background = true on the command before it and
\* stops, so the returned node ends with that command; a command not followed
\* by & has background = false.
C23_BackgroundStops ==
    LET toks == Tokens(input)
    IN  node.ok =>
          /\ \A i \in 1..Len(toks) :
                (/\ toks[i].type = "Background"
                 /\ \A j \in 1..(i - 1) : toks[j].type \notin {"Semi", "Background"}) =>
                    /\ Len(node.commands) = Count(toks, i, "Pipe") + 1
                    /\ node.commands[Len(node.commands)].background
          /\ \A k \in 1..Len(node.commands) :
                node.commands[k].background =>
                    /\ k = Len(node.commands)
                    /\ \E i \in 1..Len(toks) : toks[i].type = "Background"

Quotes == {"\"", "'"}

\* C24: a quoted string at the head of the line, delimited by " or ', is
\* returned by one call of next_token as one Word whose text is what stands
\* between the quotes, blanks and operator characters included; the line
\* "a b" 'c d' gives exactly the two Words a b and c d.
C24_QuotedString ==
    /\ \A c \in 2..Len(input) :
          (/\ input[1] \in Quotes
           /\ input[c] = input[1]
           /\ \A k \in 2..(c - 1) : input[k] \notin {input[1], "\\"}) =>
              /\ next_token(input) = [tok  |-> Word(SubSeq(input, 2, c - 1)),
                                      rest |-> SubSeq(input, c + 1, Len(input))]
              /\ (c = Len(input) /\ node # NotParsed) =>
                    node = [ok |-> TRUE, kind |-> "Command", error |-> "",
                            commands |-> <<[program |-> SubSeq(input, 2, c - 1),
                                            arguments |-> <<>>, redirections |-> <<>>,
                                            background |-> FALSE]>>]
    /\ Tokens(<<"\"", "a", " ", "b", "\"", " ", "'", "c", " ", "d", "'">>) =
          <<Word(<<"a", " ", "b">>), Word(<<"c", " ", "d">>)>>

C24_Witness ==
    /\ node.ok /\ node.kind = "Command"
    /\ Len(input) = 5 /\ input[1] = "'" /\ input[5] = "'"
    /\ node.commands[1].program = <<"a", " ", "|">>

\* s without its leading blanks.
Unblanked(s) ==
    IF \A k \in 1..Len(s) : s[k] = " " THEN <<>>
    ELSE LET i == CHOOSE k \in 1..Len(s) : s[k] # " " /\ \A j \in 1..(k - 1) : s[j] = " "
         IN  SubSeq(s, i, Len(s))

\* C25: every call of next_token returns a token; a call that returns
\* anything but EndOfInput reads at least one character; once the input is
\* used up or EndOfInput was returned every further call returns EndOfInput;
\* an unterminated quote gives one Word with the rest of the input and leaves
\* nothing to read; and EndOfInput is returned after finitely many calls and
\* from then on.
C25_LexerTerminates ==
    /\ [][/\ token'.type \in {"Word", "Pipe", "Redirect", "Background", "Semi", "EOF"}
          /\ token' # EOF => Len(lexer') < Len(lexer)
          /\ (token = EOF \/ lexer = <<>>) => token' = EOF
          /\ token' = EOF => lexer' = <<>>
          /\ LET s == Unblanked(lexer)
             IN  (/\ s # <<>>
                  /\ s[1] \in Quotes
                  /\ \A k \in 2..Len(s) : s[k] \notin {s[1], "\\"}) =>
                     token' = Word(Tail(s)) /\ lexer' = <<>>]_vars
    /\ <>[](token = EOF)

C25_Witness ==
    /\ input = <<"\"", "a", " ", "|">>
    /\ token = Word(<<"a", " ", "|">>)
    /\ lexer = <<>>

\* The sequences of seqs joined into one.
RECURSIVE Concat(_)
Concat(seqs) == IF seqs = <<>> THEN <<>> ELSE Head(seqs) \o Concat(Tail(seqs))

\* The length of the identifier run at the head of w.
IdentLen(w) ==
    Cardinality({k \in 1..Len(w) : \A j \in 1..k : w[j] \in Alphanumeric \cup {"_"}})

\* The value bound to name in store, the empty string when there is none.
ValueOf(store, name) == IF name \in DOMAIN store THEN store[name] ELSE <<>>

\* In the word w every $ is followed by an identifier character.
AllReferences(w) ==
    \A k \in 1..Len(w) :
        w[k] = "$" => (k < Len(w) /\ w[k + 1] \in Alphanumeric \cup {"_"})

\* The word w with every $ and the identifier run after it replaced by the
\* value of that identifier in store; defined by cutting w at its $ signs.
Expanded(store, w) ==
    LET pieces == SplitOn(w, "$")
    IN  Concat([i \in 1..Len(pieces) |->
                  IF i = 1 THEN pieces[1]
                  ELSE ValueOf(store, SubSeq(pieces[i], 1, IdentLen(pieces[i])))
                          \o SubSeq(pieces[i], IdentLen(pieces[i]) + 1, Len(pieces[i]))])

FooStore == [n \in {<<"F", "O", "O">>} |-> <<"b", "a", "r">>]

\* C26: in an argument each $ followed by an identifier run is replaced by
\* the value of that identifier in the store, by nothing when it is unbound,
\* and the text after the run is kept; with FOO=bar, $FOO-x gives bar-x and
\* $UNSET gives the empty string.
C26_ExpandVariables ==
    [][/\ child' # child =>
            \A k \in 1..Len(child'.original_args) :
                AllReferences(child'.original_args[k]) =>
                    child'.args[k] = Expanded(local_vars, child'.original_args[k])
       /\ expand_variables(FooStore, <<"$", "F", "O", "O", "-", "x">>) =
            <<"b", "a", "r", "-", "x">>
       /\ expand_variables(FooStore, <<"$", "U", "N", "S", "E", "T">>) = <<>>]_vars

C26_Witness ==
    /\ child.spawned
    /\ child.original_args = << <<"$", "X", "-">> >>
    /\ child.args = << <<"$", "Y", "-">> >>
    /\ result = "Ok"

\* C27: the store changes only when a set command with two arguments binds
\* its NAME to its VALUE, and an external command spawned with the argument
\* $NAME receives the value then bound to NAME, as it was set and not
\* expanded again.
C27_SetThenExpand ==
    [][/\ local_vars' # local_vars =>
            \E a \in SetArgLists :
                /\ Len(a) = 2
                /\ DOMAIN local_vars' = DOMAIN local_vars \cup {a[1]}
                /\ local_vars'[a[1]] = a[2]
                /\ \A n \in DOMAIN local_vars \ {a[1]} : local_vars'[n] = local_vars[n]
       /\ child' # child =>
            \A k \in 1..Len(child'.original_args) :
                \A n \in DOMAIN local_vars :
                    child'.original_args[k] = <<"$">> \o n =>
                        child'.args[k] = local_vars[n]]_vars

C27_Witness ==
    /\ child.spawned
    /\ child.original_args = << <<"$", "Y">>, <<"$", "X">> >>
    /\ child.args = << <<"-">>, <<"$", "Y">> >>
    /\ result = "Ok"

\* C28: every argument of every command is expanded before it is used: the
\* arguments an external command receives are the expansions of its words,
\* and set binds the expansion of its first argument to the expansion of its
\* second.
C28_EveryArgumentExpanded ==
    [][/\ child' # child =>
            \A k \in 1..Len(child'.original_args) :
                child'.args[k] = expand_variables(local_vars, child'.original_args[k])
       /\ \A a \in SetArgLists :
            (Len(a) = 2 /\ BuiltinSetArgs(a)) =>
                LET name  == expand_variables(local_vars, a[1])
                    value == expand_variables(local_vars, a[2])
                IN  name \in DOMAIN local_vars' /\ local_vars'[name] = value]_vars

\* C29: set with other than two arguments returns InvalidInput and leaves
\* the store as it was; with two arguments it binds NAME to VALUE, in place
\* of an earlier binding of NAME, and leaves every other binding.
C29_BuiltinSet ==
    [][\A a \in SetArgLists :
          BuiltinSetArgs(a) =>
              /\ Len(a) # 2 => (result' = "InvalidInput" /\ local_vars' = local_vars)
              /\ Len(a) = 2 =>
                    /\ result' = "Ok"
                    /\ DOMAIN local_vars' = DOMAIN local_vars \cup {a[1]}
                    /\ local_vars'[a[1]] = a[2]
                    /\ \A n \in DOMAIN local_vars \ {a[1]} :
                          local_vars'[n] = local_vars[n]]_vars

C29_Witness ==
    /\ result = "InvalidInput"
    /\ DOMAIN local_vars = SetNames
    /\ local_vars[<<"X">>] # local_vars[<<"Y">>]

\* C30: the environment of a spawned command is exactly the store at the
\* time of the spawn; a variable of the shell's own environment that is not
\* in the store is not in it.
C30_EnvironmentIsStore ==
    [][child' # child =>
          /\ child'.spawned
          /\ DOMAIN child'.env = DOMAIN local_vars
          /\ \A n \in DOMAIN local_vars : child'.env[n] = local_vars[n]
          /\ \A n \in DOMAIN InheritedEnv \ DOMAIN local_vars :
                n \notin DOMAIN child'.env]_vars

C30_Witness ==
    /\ child.spawned
    /\ result = "Ok"
    /\ DOMAIN child.env = SetNames
    /\ child.env = local_vars

\* The results with which a command fails, and the interrupt of a read.
Failures == {"ParseError", "InvalidInput", "Io", "NotFound", "Interrupted"}

\* The lines that ask for the end of the shell.
ExitLines ==
    {line \in LoopLines :
        \/ trim(line) = ExitWord
        \/ /\ parse_command(line).ok
           /\ parse_command(line).commands # <<>>
           /\ parse_command(line).commands[1].program = ExitWord}

\* C31: no failure of a single command ends the read loop.  After a parse
\* error, a builtin argument error, a spawn error, a job-not-found error or an
\* interrupted read the main thread stands before the next read, with the
\* scheduler flag true, so that wait_until_foreground returns once no signal
\* handler is running; its next step is that return.  The loop is left only
\* from the prompt, by end-of-input or by a line that says `exit`.
C31_FailuresKeepLoop ==
    /\ []((pc = "wait" /\ result \in Failures) =>
            /\ is_fg = TRUE
            /\ (hpc = "idle" => ENABLED WaitUntilForeground))
    /\ [][(pc = "wait" /\ result \in Failures /\ pc' # pc) =>
            (pc' = "prompt" /\ result' = "none")]_vars
    /\ [][(pc' \notin {"prompt", "wait"} /\ pc \in {"prompt", "wait"}) =>
            /\ pc = "prompt"
            /\ pc' \in {"eof", "exited", "ec_spawned", "fg_resolved", "bg_resolved"}
            /\ pc' = "eof" => ReadEof
            /\ pc' = "exited" => \E line \in ExitLines : ReadLineOf(line)]_vars

\* A parse error is reported while a job is in the table.
C31_Witness ==
    /\ pc = "wait" /\ result = "ParseError" /\ hpc = "idle"
    /\ Len(jobs) = 1

\* C32: an assignment without `export` changes only the variable store
\* and never the environment of the shell process, whatever the name is.
C32_AssignmentStaysLocal ==
    [][\A args \in AssignArgLists :
          (args[1] # ExportWord /\ HandleAssignmentOf(args)) => os_env' = os_env]_vars

\* Some execute permission bit (others, group, owner) of a mode is set.
SomeExecuteBit(mode) == \E b \in {1, 8, 64} : (mode \div b) % 2 = 1

\* The directory d holds an entry of that name whose mode can be read and has
\* an execute bit set.
Qualifies(d, name) ==
    /\ d \in DOMAIN dirs
    /\ dirs[d].kind = "Ok"
    /\ name \in DOMAIN dirs[d].entries
    /\ dirs[d].entries[name].meta_ok
    /\ SomeExecuteBit(dirs[d].entries[name].mode)

\* C33: find_file_in_path(name, true) returns the entry `name` of the first
\* directory of PATH, in PATH order, that holds an entry of that name with an
\* execute bit set; entries without one and directories that are missing or
\* cannot be read are passed over; the result is empty when no directory
\* qualifies.
C33_FindFileInPath ==
    (lookup.called /\ lookup.exec) =>
        IF PathName \notin DOMAIN os_env THEN lookup.ret = <<>>
        ELSE LET path == SplitOn(os_env[PathName], ":")
                 good == {k \in 1..Len(path) : Qualifies(path[k], lookup.filename)}
             IN  IF good = {} THEN lookup.ret = <<>>
                 ELSE \E k \in good :
                        /\ \A j \in good : k <= j
                        /\ lookup.ret = path[k] \o <<"/">> \o lookup.filename

\* x holds `a` without an execute bit, and `a` is found in y, later in PATH.
C33_Witness ==
    /\ lookup.called /\ lookup.exec /\ lookup.filename = <<"a">>
    /\ PathName \in DOMAIN os_env
    /\ os_env[PathName] = <<"x", ":", "y">>
    /\ dirs[<<"x">>].kind = "Ok" /\ <<"a">> \in DOMAIN dirs[<<"x">>].entries
    /\ dirs[<<"x">>].entries[<<"a">>].mode = 420
    /\ lookup.ret = <<"y", "/", "a">>

\* C34: when handle_sigchld reaps the stop of a child that is a job of the
\* table, the job stays where it is with its pid, index and marks, its status
\* becomes Suspended, every other job is left as it was, the shell's group
\* is the terminal's foreground group again and the scheduler flag is true.
C34_StopKeepsJob ==
    [][\A p \in Pids :
          (/\ hpc = "loop"
           /\ wstat[p] = "stopped" /\ wstat'[p] = "none"
           /\ p \in JobPids(jobs)) =>
              /\ Len(jobs') = Len(jobs)
              /\ \A k \in 1..Len(jobs) :
                    IF jobs[k].pid = p
                    THEN /\ jobs'[k].pid = p
                         /\ jobs'[k].index = jobs[k].index
                         /\ jobs'[k].is_current = jobs[k].is_current
                         /\ jobs'[k].is_previous = jobs[k].is_previous
                         /\ jobs'[k].status = "Suspended"
                    ELSE jobs'[k] = jobs[k]
              /\ tty' = SHELL
              /\ is_fg' = TRUE]_vars

\* A job that is not the current one was just marked Suspended.
C34_Witness ==
    /\ hpc = "loop"
    /\ Len(jobs) = 2
    /\ \E k \in 1..Len(jobs) :
          /\ jobs[k].status = "Suspended" /\ ~jobs[k].is_current
          /\ proc[jobs[k].pid] = "stopped" /\ wstat[jobs[k].pid] = "none"
    /\ tty = SHELL /\ is_fg

\* C35: one invocation of handle_sigchld goes on calling waitpid until no
\* child has a state change pending: when it returns and no further SIGCHLD
\* was raised meanwhile, every change was reaped, and no exited child is left
\* a zombie.
C35_HandlerDrains ==
    [][(hpc = "loop" /\ hpc' = "idle" /\ ~sigchld') =>
          \A p \in Pids : wstat'[p] = "none" /\ proc'[p] # "zombie"]_vars

C37_FgMarks ==
    [][(last'.op = "fg" /\ IsSome(last'.ret)) =>
          \A t \in Named(jobs, last'.arg) :
              IF jobs[t].is_current
              THEN \A k \in 1..Len(jobs) : Marks(jobs'[k]) = Marks(jobs[k])
              ELSE \A k \in 1..Len(jobs) :
                      jobs[k].is_current => (jobs'[k].is_previous /\ ~jobs'[k].is_current)]_vars

\* The word w with every $ that an identifier run follows replaced, with
\* the run, by the value of that identifier in store, and every other
\* character, a $ without an identifier after it included, kept.
ExpandedKeeping(store, w) ==
    LET pieces == SplitOn(w, "$")
    IN  Concat([i \in 1..Len(pieces) |->
                  IF i = 1 THEN pieces[1]
                  ELSE IF IdentLen(pieces[i]) = 0 THEN <<"$">> \o pieces[i]
                  ELSE ValueOf(store, SubSeq(pieces[i], 1, IdentLen(pieces[i])))
                          \o SubSeq(pieces[i], IdentLen(pieces[i]) + 1, Len(pieces[i]))])

\* C38: expand_variables copies every character outside a $identifier
\* reference unchanged and in order: a $ before punctuation, before another $
\* or at the end of the word is kept, and a word without $ comes back as it is.
C38_OtherCharactersKept ==
    [][child' # child =>
          \A k \in 1..Len(child'.original_args) :
              /\ child'.args[k] = ExpandedKeeping(local_vars, child'.original_args[k])
              /\ (\A j \in 1..Len(child'.original_args[k]) :
                      child'.original_args[k][j] # "$") =>
                   child'.args[k] = child'.original_args[k]]_vars

\* The child pid has reported an exit, a termination by signal or a stop to
\* wait_fg_job: its job was removed from the table or is marked Stopped.
Reported(js, pid) ==
    \A k \in 1..Len(js) : js[k].pid = pid => js[k].status = "Stopped"

\* C39: wait_fg_job returns only when every pid of the foreground job has
\* reported an exit, a termination by signal or a stop, or when waitpid
\* returned an error.
C39_WaitsForEveryPid ==
    [][(pc = "wait_fg_job" /\ pc' = "prompt" /\ ~fg_wait'.error) =>
          \A i \in 1..Len(fg_wait.pids) : Reported(jobs', fg_wait.pids[i])]_vars

\* C40: when handle_sigchld reaps a Continued notification, of whatever
\* child, the job table, the scheduler flag and the terminal's foreground
\* group stay as they are; a step of the handler that changes the flag or the
\* terminal reaps an exit, a termination by signal or a stop.
C40_ContinuedChangesNothing ==
    /\ [][\A p \in Pids :
            (hpc = "loop" /\ wstat[p] = "continued" /\ wstat'[p] = "none") =>
                (jobs' = jobs /\ is_fg' = is_fg /\ tty' = tty)]_vars
    /\ [][(hpc = "loop" /\ (is_fg' # is_fg \/ tty' # tty)) =>
            \E p \in Pids : /\ wstat[p] \in {"exited", "signaled", "stopped"}
                            /\ wstat'[p] = "none"]_vars

\* A stopped job was continued and the notification reaped: it runs, still
\* marked Suspended, while another job holds the terminal and the shell waits.
C40_Witness ==
    /\ hpc = "idle" /\ ~is_fg /\ tty # SHELL
    /\ \E k \in 1..Len(jobs) :
          /\ jobs[k].status = "Suspended"
          /\ jobs[k].pid # tty
          /\ proc[jobs[k].pid] = "running" /\ wstat[jobs[k].pid] = "none"

====
